---- MODULE Spec2Model ----
(***************************************************************************)
(* Verification model of the OSINT intel_engine orchestration core:        *)
(*   intel_engine/modules/research_ai_orchestrator.py                      *)
(*   intel_engine/core/module_base.py                                      *)
(* and of the planner intel_engine/ai/planner.py.                          *)
(* Python lists are sequences, Python sets are sets, dictionaries are      *)
(* functions or records.                                                   *)
(***************************************************************************)
EXTENDS Integers, Sequences, FiniteSets, TLC

VARIABLES
    pc,                 \* position of the orchestrator inside _execute_impl
    profile,            \* the shared, mutable profile document
    dependencies,       \* the dependency table read by _build_execution_order
    objectives,         \* local of _execute_impl
    selected_modules,   \* local of _execute_impl
    execution_order,    \* local of _execute_impl
    diagnostics,        \* cycle warnings written to the logger, in order
    visit_calls,        \* number of calls of visit() made by the last ordering
    idx,                \* 1-based position of the for loop over execution_order
    module_results,     \* local of _execute_impl
    loaded,             \* (module_class, profile_section) held by _run_module
    prepared,           \* kwargs held by _run_module between prepare and invoke
    returned,           \* value returned by _execute_impl, <<>> before it returns
    raised,             \* message of an exception that left _execute_impl, "" if none
    trace,              \* observation log: loads, invocations, writes
    section_requirements, \* AIPlanner.section_requirements, in schema order
    history,            \* the history argument of suggest_modules
    gap_summary,        \* result of analyze_gaps, <<>> before the call
    suggestions,        \* result of suggest_modules, <<>> before the call
    instance            \* the fields of an IntelModuleBase object inside execute

\* the state of the planner
planner_vars == <<section_requirements, history, gap_summary, suggestions>>

vars == <<pc, profile, dependencies, objectives, selected_modules,
          execution_order, diagnostics, visit_calls, idx, module_results,
          loaded, prepared, returned, raised, trace, planner_vars, instance>>

\* None as a payload
NonePayload == [kind |-> "none", fields |-> <<>>]

\* a schema that is None or empty: "schema or {}" of __init__
NoSchema == [declared |-> FALSE, required |-> <<>>, properties |-> <<>>]

\* no IntelModuleBase.execute is under way
NoInstance ==
    [profile_schema |-> NoSchema, output_schema |-> NoSchema, impl |-> "",
     current_profile |-> NonePayload, last_result |-> NonePayload]

\* no planner is at work
PlannerIdle ==
    /\ section_requirements = <<>>
    /\ history = {}
    /\ gap_summary = <<>>
    /\ suggestions = <<>>

----------------------------------------------------------------------------
(* Bounds of the model *)

\* longest dependency list of a generated dependency table
MaxDeps == 2

\* most module loads of one run in which an import fails
MaxImportFailures == 1

\* most module executions of one run that find their external tool missing
MaxToolFailures == 1

----------------------------------------------------------------------------
(* Generic helpers *)

Range(s) == {s[i] : i \in 1..Len(s)}

NoDuplicates(s) == \A i, j \in 1..Len(s) : i # j => s[i] # s[j]

IndexOf(s, x) == CHOOSE i \in 1..Len(s) : s[i] = x

\* the elements of S listed in the order they have in the sequence s
RECURSIVE FilterSeq(_, _)
FilterSeq(s, S) ==
    IF s = <<>> THEN <<>>
    ELSE IF Head(s) \in S THEN <<Head(s)>> \o FilterSeq(Tail(s), S)
    ELSE FilterSeq(Tail(s), S)

\* sequences over S without repetition, of length at most n
SeqsNoDup(S, n) ==
    UNION {{s \in [1..k -> S] : NoDuplicates(s)} : k \in 0..n}

----------------------------------------------------------------------------
(* Static tables of ResearchAICollectionOrchestrator *)

MODULE_PRIORITY ==
    <<"theHarvester", "Recon-ng", "SpiderFoot", "Photon", "Metagoofil",
      "Sherlock", "GHunt", "Skiptracer", "Twint">>

\* a module id that no table of the orchestrator knows
UnknownModule == "Amass"

\* every module id of the model in Python's str ordering (code points:
\* upper case before lower case), as used by sorted()
SortedModuleIds ==
    <<"Amass", "GHunt", "Metagoofil", "Photon", "Recon-ng", "Sherlock",
      "Skiptracer", "SpiderFoot", "Twint", "theHarvester">>

ModuleIds == Range(SortedModuleIds)

\* the dependencies literal of _build_execution_order
ShippedDependencies ==
    [m \in ModuleIds |->
        CASE m = "Recon-ng"   -> <<"theHarvester">>
          [] m = "SpiderFoot" -> <<"theHarvester", "Recon-ng">>
          [] m = "Photon"     -> <<"theHarvester">>
          [] m = "Metagoofil" -> <<"Photon">>
          [] OTHER            -> <<>>]

----------------------------------------------------------------------------
(* _order_modules and _build_execution_order *)

\* _order_modules that sorts by name alone
order_modules_by_name(modules) == FilterSeq(SortedModuleIds, modules)

order_modules(modules) ==
    FilterSeq(MODULE_PRIORITY, modules)
        \o FilterSeq(SortedModuleIds, modules \ Range(MODULE_PRIORITY))

\* the closure loop stopped after its first pass: direct dependencies only
expand_closure_direct(expanded, deps) ==
    expanded \cup UNION {Range(deps[m]) : m \in expanded}

\* one pass of the closure loop: every dependency of a member is added
RECURSIVE expand_closure(_, _)
expand_closure(expanded, deps) ==
    LET more == expanded \cup UNION {Range(deps[m]) : m \in expanded}
    IN IF more = expanded THEN expanded ELSE expand_closure(more, deps)

RECURSIVE visit(_, _, _, _)
RECURSIVE visit_dependencies(_, _, _, _)

\* visit() with the append moved before the recursion (pre-order)
visit_preorder(module_id, st, deps, expanded) ==
    LET counted == [st EXCEPT !.calls = @ + 1]
    IN IF module_id \in st.visited THEN counted
       ELSE IF module_id \in st.visiting
            THEN [counted EXCEPT !.warnings = Append(@, module_id)]
       ELSE LET entered == [counted EXCEPT !.visiting = @ \cup {module_id},
                                           !.ordered = Append(@, module_id)]
                after == visit_dependencies(deps[module_id], entered, deps, expanded)
            IN [after EXCEPT !.visiting = @ \ {module_id},
                             !.visited = @ \cup {module_id}]

\* visit() that forgets to record the module as visited
visit_unmarked(module_id, st, deps, expanded) ==
    LET counted == [st EXCEPT !.calls = @ + 1]
    IN IF module_id \in st.visited THEN counted
       ELSE IF module_id \in st.visiting
            THEN [counted EXCEPT !.warnings = Append(@, module_id)]
       ELSE LET entered == [counted EXCEPT !.visiting = @ \cup {module_id}]
                after == visit_dependencies(deps[module_id], entered, deps, expanded)
            IN [after EXCEPT !.visiting = @ \ {module_id},
                             !.ordered = Append(@, module_id)]

\* the nested function visit of _build_execution_order; st holds the closure
\* variables ordered, visiting, visited, the warnings logged and a call count
visit(module_id, st, deps, expanded) ==
    LET counted == [st EXCEPT !.calls = @ + 1]
    IN IF module_id \in st.visited THEN counted
       ELSE IF module_id \in st.visiting
            THEN [counted EXCEPT !.warnings = Append(@, module_id)]
       ELSE LET entered == [counted EXCEPT !.visiting = @ \cup {module_id}]
                after == visit_dependencies(deps[module_id], entered, deps, expanded)
            IN [after EXCEPT !.visiting = @ \ {module_id},
                             !.visited = @ \cup {module_id},
                             !.ordered = Append(@, module_id)]

\* the for loop of visit over the dependency list of a module
visit_dependencies(list, st, deps, expanded) ==
    IF list = <<>> THEN st
    ELSE LET next == IF Head(list) \in expanded
                     THEN visit(Head(list), st, deps, expanded)
                     ELSE st
         IN visit_dependencies(Tail(list), next, deps, expanded)

\* the final for loop of _build_execution_order
RECURSIVE visit_all(_, _, _, _)
visit_all(list, st, deps, expanded) ==
    IF list = <<>> THEN st
    ELSE visit_all(Tail(list), visit(Head(list), st, deps, expanded), deps, expanded)

build_execution_order(selected, deps) ==
    LET expanded == expand_closure(Range(selected), deps)
        start == [ordered |-> <<>>, visiting |-> {}, visited |-> {},
                  warnings |-> <<>>, calls |-> 0]
    IN visit_all(order_modules(expanded), start, deps, expanded)

----------------------------------------------------------------------------
(* Text: a Python str is the sequence of its characters *)

LowerChar(c) ==
    CASE c = "A" -> "a"
      [] c = "B" -> "b"
      [] c = "C" -> "c"
      [] c = "D" -> "d"
      [] c = "E" -> "e"
      [] c = "F" -> "f"
      [] c = "G" -> "g"
      [] c = "H" -> "h"
      [] c = "I" -> "i"
      [] c = "J" -> "j"
      [] c = "K" -> "k"
      [] c = "L" -> "l"
      [] c = "M" -> "m"
      [] c = "N" -> "n"
      [] c = "O" -> "o"
      [] c = "P" -> "p"
      [] c = "Q" -> "q"
      [] c = "R" -> "r"
      [] c = "S" -> "s"
      [] c = "T" -> "t"
      [] c = "U" -> "u"
      [] c = "V" -> "v"
      [] c = "W" -> "w"
      [] c = "X" -> "x"
      [] c = "Y" -> "y"
      [] c = "Z" -> "z"
      [] OTHER -> c

\* str.lower()
Lower(s) == [i \in 1..Len(s) |-> LowerChar(s[i])]

\* str.startswith(prefix)
StartsWith(s, prefix) ==
    /\ Len(prefix) <= Len(s)
    /\ SubSeq(s, 1, Len(prefix)) = prefix

\* the test "needle in s" on two strings
Contains(s, needle) ==
    \E i \in 0..(Len(s) - Len(needle)) : SubSeq(s, i + 1, i + Len(needle)) = needle

IsSpace(c) == c = " "

\* str.strip()
RECURSIVE LStrip(_)
LStrip(s) == IF s # <<>> /\ IsSpace(Head(s)) THEN LStrip(Tail(s)) ELSE s

RECURSIVE RStrip(_)
RStrip(s) ==
    IF s # <<>> /\ IsSpace(s[Len(s)]) THEN RStrip(SubSeq(s, 1, Len(s) - 1)) ELSE s

Strip(s) == RStrip(LStrip(s))

\* s.split(":", 1)[1] for a string that holds a colon
AfterFirstColon(s) ==
    LET i == CHOOSE k \in 1..Len(s) :
                 s[k] = ":" /\ \A j \in 1..(k - 1) : s[j] # ":"
    IN SubSeq(s, i + 1, Len(s))

str_objective == <<"o", "b", "j", "e", "c", "t", "i", "v", "e">>

str_goal == <<"g", "o", "a", "l">>

str_objective_colon == <<"o", "b", "j", "e", "c", "t", "i", "v", "e", ":">>

str_goal_colon == <<"g", "o", "a", "l", ":">>

general_osint_collection == <<"g", "e", "n", "e", "r", "a", "l", "_", "o", "s", "i", "n", "t", "_", "c", "o", "l", "l", "e", "c", "t", "i", "o", "n">>

----------------------------------------------------------------------------
(* _extract_objectives, _extract_targets, _select_modules *)

\* the body of the for loop of _extract_objectives for one document
document_objectives(doc) ==
    LET name == Strip(doc.name)
        doc_type == Lower(Strip(doc.type))
        lowered == Lower(name)
    IN IF StartsWith(doc_type, str_objective) \/ doc_type = str_goal
       THEN (IF name # <<>> THEN <<name>> ELSE <<>>)
       ELSE IF StartsWith(lowered, str_objective_colon)
                 \/ StartsWith(lowered, str_goal_colon)
            THEN (IF Strip(AfterFirstColon(name)) # <<>>
                  THEN <<Strip(AfterFirstColon(name))>>
                  ELSE <<name>>)
            ELSE <<>>

\* the loop walking the documents from the last to the first
RECURSIVE collect_objectives_reversed(_)
collect_objectives_reversed(documents) ==
    IF documents = <<>> THEN <<>>
    ELSE collect_objectives_reversed(Tail(documents))
             \o document_objectives(Head(documents))

RECURSIVE collect_objectives(_)
collect_objectives(documents) ==
    IF documents = <<>> THEN <<>>
    ELSE document_objectives(Head(documents)) \o collect_objectives(Tail(documents))

\* profile.get("metadata", {}); <<>> stands for the empty mapping
profile_metadata(p) == IF "metadata" \in DOMAIN p THEN p.metadata ELSE <<>>

\* metadata.get("documents") or []
metadata_documents(metadata) ==
    IF "documents" \in DOMAIN metadata THEN metadata.documents ELSE <<>>

\* _extract_objectives without its default for an empty result
extract_objectives_no_default(p) ==
    collect_objectives(metadata_documents(profile_metadata(p)))

extract_objectives(p) ==
    LET found == collect_objectives(metadata_documents(profile_metadata(p)))
    IN IF found = <<>> THEN <<general_osint_collection>> ELSE found

extract_targets(p) ==
    [names |-> IF p.full_name # "" THEN <<p.full_name>> ELSE <<>>,
     emails |-> p.emails,
     phones |-> p.phones,
     usernames |-> p.usernames,
     domains |-> p.domains,
     ips |-> p.ips,
     company_names |-> p.company_names]

keyword_map ==
    <<[keyword |-> <<"e", "m", "a", "i", "l">>,
       modules |-> {"theHarvester", "GHunt"}],
      [keyword |-> <<"d", "o", "m", "a", "i", "n">>,
       modules |-> {"theHarvester", "Photon", "Recon-ng", "SpiderFoot"}],
      [keyword |-> <<"s", "u", "b", "d", "o", "m", "a", "i", "n">>,
       modules |-> {"theHarvester", "Photon"}],
      [keyword |-> <<"s", "o", "c", "i", "a", "l">>,
       modules |-> {"Sherlock", "Twint"}],
      [keyword |-> <<"u", "s", "e", "r", "n", "a", "m", "e">>,
       modules |-> {"Sherlock", "Twint"}],
      [keyword |-> <<"t", "w", "i", "t", "t", "e", "r">>,
       modules |-> {"Twint"}],
      [keyword |-> <<"g", "o", "o", "g", "l", "e">>,
       modules |-> {"GHunt"}],
      [keyword |-> <<"a", "c", "c", "o", "u", "n", "t">>,
       modules |-> {"GHunt", "Sherlock"}],
      [keyword |-> <<"r", "e", "c", "o", "n">>,
       modules |-> {"theHarvester", "Recon-ng"}],
      [keyword |-> <<"c", "r", "a", "w", "l">>,
       modules |-> {"Photon"}],
      [keyword |-> <<"w", "e", "b">>,
       modules |-> {"Photon", "Metagoofil"}],
      [keyword |-> <<"d", "o", "c", "u", "m", "e", "n", "t">>,
       modules |-> {"Metagoofil"}],
      [keyword |-> <<"f", "i", "l", "e">>,
       modules |-> {"Metagoofil"}],
      [keyword |-> <<"m", "e", "t", "a", "d", "a", "t", "a">>,
       modules |-> {"Metagoofil"}],
      [keyword |-> <<"i", "n", "f", "r", "a", "s", "t", "r", "u", "c", "t", "u", "r", "e">>,
       modules |-> {"SpiderFoot"}],
      [keyword |-> <<"i", "p">>,
       modules |-> {"SpiderFoot"}],
      [keyword |-> <<"p", "h", "o", "n", "e">>,
       modules |-> {"Skiptracer"}],
      [keyword |-> <<"e", "n", "r", "i", "c", "h", "m", "e", "n", "t">>,
       modules |-> {"Skiptracer"}],
      [keyword |-> <<"c", "o", "r", "r", "e", "l", "a", "t", "e">>,
       modules |-> {"Recon-ng", "SpiderFoot"}],
      [keyword |-> <<"m", "a", "p">>,
       modules |-> {"SpiderFoot"}]>>

\* the modules selected by the keywords found in one objective
keyword_modules(objective) ==
    UNION {keyword_map[i].modules :
             i \in {k \in 1..Len(keyword_map) :
                        Contains(Lower(objective), keyword_map[k].keyword)}}

\* the target pass written as one if/elif chain: the first bucket only
target_modules_first_bucket(targets) ==
    IF targets.emails # <<>> THEN {"theHarvester", "GHunt"}
    ELSE IF targets.domains # <<>>
    THEN {"theHarvester", "Photon", "Recon-ng", "SpiderFoot"}
    ELSE IF targets.ips # <<>> THEN {"SpiderFoot"}
    ELSE IF targets.usernames # <<>> THEN {"Sherlock", "Twint"}
    ELSE IF targets.phones # <<>> THEN {"Skiptracer"}
    ELSE {}

\* the modules selected by the non-empty target buckets
target_modules(targets) ==
    (IF targets.emails # <<>> THEN {"theHarvester", "GHunt"} ELSE {})
    \cup (IF targets.domains # <<>>
          THEN {"theHarvester", "Photon", "Recon-ng", "SpiderFoot"} ELSE {})
    \cup (IF targets.ips # <<>> THEN {"SpiderFoot"} ELSE {})
    \cup (IF targets.usernames # <<>> THEN {"Sherlock", "Twint"} ELSE {})
    \cup (IF targets.phones # <<>> THEN {"Skiptracer"} ELSE {})

\* _select_modules without the fallback for an empty union
select_modules_no_fallback(objs, targets) ==
    order_modules(UNION {keyword_modules(objs[i]) : i \in 1..Len(objs)}
                      \cup target_modules(targets))

select_modules(objs, targets) ==
    LET matched == UNION {keyword_modules(objs[i]) : i \in 1..Len(objs)}
                       \cup target_modules(targets)
        selected == IF matched = {} THEN {"theHarvester", "Sherlock", "Twint"}
                    ELSE matched
    IN order_modules(selected)

----------------------------------------------------------------------------
(* MODULE_REGISTRY and _load_module_class *)

RegistryEntry(path, class, section) ==
    [import_path |-> path, class_name |-> class, profile_section |-> section]

MODULE_REGISTRY ==
    [m \in ModuleIds |->
        CASE m = "theHarvester" ->
               <<RegistryEntry("research_domain_email_enumeration",
                               "Research_Domain_Email_Enumeration", "digital")>>
          [] m = "SpiderFoot" ->
               <<RegistryEntry("research_automation_spiderfoot",
                               "Research_Automation_SpiderFoot", "digital")>>
          [] m = "Recon-ng" ->
               <<RegistryEntry("research_framework_reconng",
                               "Research_Framework_ReconNG", "intelligence")>>
          [] m = "Metagoofil" ->
               <<RegistryEntry("research_metadata_document",
                               "Research_Metadata_Document_Extraction", "digital")>>
          [] m = "Photon" ->
               <<RegistryEntry("research_web_crawling_photon",
                               "ResearchWebCrawlingPhoton", "digital"),
                 RegistryEntry("research_web_crawling_photon",
                               "Research_Web_Crawling_Photon", "digital")>>
          [] m = "Sherlock" ->
               <<RegistryEntry("research_identity_username_search",
                               "Research_Identity_Username_Search", "social")>>
          [] m = "GHunt" ->
               <<RegistryEntry("research_account_google_intel",
                               "ResearchAccountGoogleIntel", "digital")>>
          [] m = "Skiptracer" ->
               <<RegistryEntry("research_enrichment_skiptracer",
                               "Research_Enrichment_Skiptracer", "enrichment")>>
          [] m = "Twint" ->
               <<RegistryEntry("research_social_twitter_intelligence",
                               "ResearchSocialTwitterIntelligence", "social"),
                 RegistryEntry("research_twitter_activity",
                               "ResearchSocialTwitterActivity", "social")>>
          [] OTHER -> <<>>]

\* the classes the modules of the registry define, by import path; the module
\* research_twitter_activity defines Research_Social_Twitter_Activity only
DefinedClasses ==
    {<<"research_domain_email_enumeration", "Research_Domain_Email_Enumeration">>,
     <<"research_automation_spiderfoot", "Research_Automation_SpiderFoot">>,
     <<"research_framework_reconng", "Research_Framework_ReconNG">>,
     <<"research_metadata_document", "Research_Metadata_Document_Extraction">>,
     <<"research_web_crawling_photon", "ResearchWebCrawlingPhoton">>,
     <<"research_web_crawling_photon", "Research_Web_Crawling_Photon">>,
     <<"research_identity_username_search", "Research_Identity_Username_Search">>,
     <<"research_account_google_intel", "ResearchAccountGoogleIntel">>,
     <<"research_account_google_intel", "Research_Account_Google_Intel">>,
     <<"research_enrichment_skiptracer", "Research_Enrichment_Skiptracer">>,
     <<"research_social_twitter_intelligence", "ResearchSocialTwitterIntelligence">>,
     <<"research_social_twitter_intelligence", "Research_Social_Twitter_Intelligence">>,
     <<"research_twitter_activity", "Research_Social_Twitter_Activity">>}

ImportPaths(module_id) ==
    {MODULE_REGISTRY[module_id][i].import_path :
        i \in 1..Len(MODULE_REGISTRY[module_id])}

\* the try block of _load_module_class for one candidate: import_module raises
\* for the paths in failing, getattr raises for a class the module lacks
candidate_loads(candidate, failing) ==
    /\ candidate.import_path \notin failing
    /\ <<candidate.import_path, candidate.class_name>> \in DefinedClasses

RECURSIVE first_loadable(_, _)
first_loadable(candidates, failing) ==
    IF candidates = <<>> THEN <<>>
    ELSE IF candidate_loads(Head(candidates), failing) THEN <<Head(candidates)>>
    ELSE first_loadable(Tail(candidates), failing)

\* _load_module_class that returns the first candidate without importing it
load_module_class_unchecked(module_id, failing) ==
    LET candidates == MODULE_REGISTRY[module_id]
    IN IF candidates = <<>>
       THEN [module_class |-> "", profile_section |-> "unknown"]
       ELSE [module_class |-> candidates[1].class_name,
             profile_section |-> candidates[1].profile_section]

\* module_class "" stands for None
load_module_class(module_id, failing) ==
    LET candidates == MODULE_REGISTRY[module_id]
        hit == first_loadable(candidates, failing)
    IN IF candidates = <<>>
       THEN [module_class |-> "", profile_section |-> "unknown"]
       ELSE IF hit # <<>>
            THEN [module_class |-> hit[1].class_name,
                  profile_section |-> hit[1].profile_section]
            ELSE [module_class |-> "",
                  profile_section |-> candidates[1].profile_section]

----------------------------------------------------------------------------
(* _prepare_module_kwargs and _derive_reconng_target *)

\* (target_type, target_value); ("", "") stands for (None, None)
derive_reconng_target(p) ==
    IF p.domains # <<>> THEN <<"domain", p.domains[1]>>
    ELSE IF p.company_names # <<>> THEN <<"company", p.company_names[1]>>
    ELSE IF p.emails # <<>> THEN <<"contact", p.emails[1]>>
    ELSE IF p.phones # <<>> THEN <<"contact", p.phones[1]>>
    ELSE IF p.full_name # "" THEN <<"contact", p.full_name>>
    ELSE <<"", "">>

\* the workspace name is "orchestrator_" + cleaned target + "_" + timestamp;
\* the model keeps the target it is derived from
build_workspace_name(target_value) == <<"orchestrator", target_value>>

NoKwargs == [target |-> "", target_type |-> "", workspace_name |-> <<>>]

\* _prepare_module_kwargs that falls back to a placeholder target
prepare_module_kwargs_placeholder(module_id, p) ==
    IF module_id # "Recon-ng"
    THEN [kwargs |-> NoKwargs, skip_reason |-> ""]
    ELSE LET target == derive_reconng_target(p)
             value == IF target[2] = "" THEN "target" ELSE target[2]
             type == IF target[1] = "" THEN "contact" ELSE target[1]
         IN [kwargs |-> [target |-> value, target_type |-> type,
                         workspace_name |-> build_workspace_name(value)],
             skip_reason |-> ""]

\* skip_reason "" stands for None
prepare_module_kwargs(module_id, p) ==
    IF module_id # "Recon-ng"
    THEN [kwargs |-> NoKwargs, skip_reason |-> ""]
    ELSE LET target == derive_reconng_target(p)
         IN IF target[2] = "" \/ target[1] = ""
            THEN [kwargs |-> NoKwargs,
                  skip_reason |-> "No suitable target found for Recon-ng execution."]
            ELSE [kwargs |-> [target |-> target[2], target_type |-> target[1],
                              workspace_name |-> build_workspace_name(target[2])],
                  skip_reason |-> ""]

----------------------------------------------------------------------------
(* The registered modules seen through IntelModuleBase.execute: what each     *)
(* requires of the profile, how it fails, and what it assigns to the profile  *)

\* the message of the exception raised when the profile lacks what the module
\* needs, "" when it has it
precondition_failure(class, p) ==
    CASE class = "Research_Domain_Email_Enumeration" /\ p.domains = <<>> ->
           "No target domain provided or available in profile.digital.domains"
      [] class = "Research_Automation_SpiderFoot"
           /\ p.usernames \o p.emails \o p.domains \o p.ips = <<>> ->
           "No valid SpiderFoot targets found. Provide target or profile data."
      [] class \in {"ResearchWebCrawlingPhoton", "Research_Web_Crawling_Photon"}
           /\ p.domains = <<>> ->
           "No target URL provided or found in profile.digital.domains"
      [] class = "Research_Metadata_Document_Extraction" /\ p.domains = <<>> ->
           "No target domains supplied in profile.digital.domains."
      [] class = "Research_Identity_Username_Search" /\ p.usernames = <<>> ->
           "Research_Identity_Username_Search requires at least one username."
      [] class = "ResearchAccountGoogleIntel" /\ p.emails = <<>> ->
           "No email address provided in profile.contact.emails."
      [] class = "Research_Enrichment_Skiptracer"
           /\ p.emails \o p.phones \o p.usernames = <<>> ->
           "No valid identifiers found for Skiptracer enrichment."
      [] class = "ResearchSocialTwitterIntelligence" /\ p.usernames = <<>> ->
           "No Twitter username provided in profile.contact.usernames or profile.social.profile_links."
      [] OTHER -> ""

\* the message of the exception raised when the external tool the module
\* wraps is not installed, "" for a module that runs without one (the
\* messages are the source's, less the backquotes around its shell commands)
tool_failure(class) ==
    CASE class = "Research_Framework_ReconNG" ->
           "recon-ng binary not found; clone the repo or update PATH."
      [] class = "Research_Automation_SpiderFoot" ->
           "SpiderFoot repository not found; clone it or pass spiderfoot_root."
      [] class \in {"ResearchWebCrawlingPhoton", "Research_Web_Crawling_Photon"} ->
           "Photon executable not found. Configure PHOTON_COMMAND or PHOTON_PATH."
      [] class = "Research_Metadata_Document_Extraction" ->
           "Unable to locate metagoofil repository root."
      [] class = "ResearchAccountGoogleIntel" ->
           "GHunt is required. Install with pip install ghunt or use the cloned repository in editable mode."
      [] class = "ResearchSocialTwitterIntelligence" ->
           "Twint is required. Install with pip install twint or use the cloned repository."
      [] OTHER -> ""

\* the states of the world a module can meet when it runs
Environments(class) ==
    IF tool_failure(class) = "" THEN {"ok"} ELSE {"ok", "tool_missing"}

\* validate_input of the module: the overrides of SpiderFoot (repository
\* present) and of Sherlock (a username present) raise before _execute_impl
validate_input(class, p, env) ==
    IF class = "Research_Automation_SpiderFoot" /\ env = "tool_missing"
    THEN tool_failure(class)
    ELSE IF class = "Research_Identity_Username_Search"
    THEN precondition_failure(class, p)
    ELSE ""

\* the exception raised inside _execute_impl, "" when it runs to its end
impl_failure(class, p, env) ==
    IF precondition_failure(class, p) # "" THEN precondition_failure(class, p)
    ELSE IF env = "tool_missing" THEN tool_failure(class)
    ELSE ""

\* _merge_unique of ResearchAccountGoogleIntel
RECURSIVE merge_unique(_, _)
merge_unique(existing, incoming) ==
    IF incoming = <<>> THEN existing
    ELSE merge_unique(
             IF Head(incoming) \in Range(existing) THEN existing
             ELSE Append(existing, Head(incoming)),
             Tail(incoming))

\* the assignments profile[section] = value made by _execute_impl, in order;
\* six of the nine registered modules return their update without assigning it
module_writes(class, kwargs, p) ==
    CASE class = "Research_Framework_ReconNG" ->
           <<[section |-> "intelligence",
              value |-> <<[tool |-> "reconng",
                           workspace |-> kwargs.workspace_name,
                           targets |-> <<kwargs.target>>]>>]>>
      [] class = "Research_Automation_SpiderFoot" ->
           <<[section |-> "intelligence",
              value |-> <<[tool |-> "spiderfoot",
                           workspace |-> <<>>,
                           targets |-> p.usernames \o p.emails \o p.domains \o p.ips]>>]>>
      [] class = "ResearchAccountGoogleIntel" ->
           <<[section |-> "digital",
              value |-> [ips |-> p.ips,
                         domains |-> merge_unique(p.domains, <<"youtube.com">>),
                         devices |-> Append(p.devices, "google_account")]]>>
      [] OTHER -> <<>>

\* the key of the partial update the module returns
output_keys(class) ==
    CASE class \in {"Research_Framework_ReconNG", "Research_Automation_SpiderFoot"} ->
           <<"intelligence">>
      [] class \in {"Research_Identity_Username_Search",
                    "ResearchSocialTwitterIntelligence"} -> <<"social">>
      [] class = "Research_Enrichment_Skiptracer" -> <<"enrichment">>
      [] OTHER -> <<"digital">>

\* profile[section] = value
apply_write(p, w) ==
    IF w.section = "intelligence" THEN [p EXCEPT !.intelligence = w.value]
    ELSE IF w.section = "digital"
    THEN [p EXCEPT !.ips = w.value.ips, !.domains = w.value.domains,
                   !.devices = w.value.devices]
    ELSE p

RECURSIVE apply_writes(_, _)
apply_writes(p, writes) ==
    IF writes = <<>> THEN p
    ELSE apply_writes(apply_write(p, Head(writes)), Tail(writes))

\* _execute_impl that assigns its section before the step that fails
execute_impl_write_first(class, kwargs, p, env) ==
    LET failure == impl_failure(class, p, env)
        writes == module_writes(class, kwargs, p)
    IN IF failure # ""
       THEN [exc |-> failure, result |-> <<>>,
             profile |-> apply_writes(p, writes), writes |-> writes]
       ELSE [exc |-> "", result |-> <<output_keys(class)>>,
             profile |-> apply_writes(p, writes), writes |-> writes]

\* _execute_impl of a registered module: every raise precedes the assignment
\* to the profile, which is the last statement before return.
\* result <<>> stands for no result, <<keys>> for a dictionary with these keys
execute_impl(class, kwargs, p, env) ==
    LET failure == impl_failure(class, p, env)
        writes == module_writes(class, kwargs, p)
    IN IF failure # ""
       THEN [exc |-> failure, result |-> <<>>, profile |-> p, writes |-> <<>>]
       ELSE [exc |-> "", result |-> <<output_keys(class)>>,
             profile |-> apply_writes(p, writes), writes |-> writes]

\* IntelModuleBase.validate_output against an output schema that requires the
\* keys in required
validate_output(result, required) ==
    IF result = <<>>
    THEN "The module has not produced a result to validate yet."
    ELSE IF \E i \in 1..Len(required) : required[i] \notin Range(result[1])
    THEN "output is missing a required field."
    ELSE ""

\* IntelModuleBase.execute: validate_input, _execute_impl, validate_output,
\* log_result, return
execute(class, kwargs, p, env) ==
    LET input_error == validate_input(class, p, env)
        impl == execute_impl(class, kwargs, p, env)
        output_error == validate_output(impl.result, output_keys(class))
    IN IF input_error # ""
       THEN [exc |-> input_error, result |-> <<>>, profile |-> p, writes |-> <<>>]
       ELSE IF impl.exc # "" THEN impl
       ELSE IF output_error # "" THEN [impl EXCEPT !.exc = output_error]
       ELSE impl

----------------------------------------------------------------------------
(* _run_module and the loop of _execute_impl *)

ExecutionRecord(module_id, status, summary, section, keys) ==
    [module |-> module_id, status |-> status, summary |-> summary,
     profile_section |-> section, output_keys |-> keys]

unavailable_record(module_id, section) ==
    ExecutionRecord(module_id, "unavailable", "Module implementation not found.",
                    section, <<>>)

skipped_record(module_id, section, skip_reason) ==
    ExecutionRecord(module_id, "skipped", skip_reason, section, <<>>)

completed_record(module_id, section, keys) ==
    ExecutionRecord(module_id, "completed", "Module executed successfully.",
                    section, keys)

\* the except branch with a fixed summary in place of str(exc)
failed_record_generic(module_id, section, exc) ==
    ExecutionRecord(module_id, "failed", "Module execution failed.", section, <<>>)

failed_record(module_id, section, exc) ==
    ExecutionRecord(module_id, "failed", exc, section, <<>>)

\* lines 378-396 without the except clause: the exception leaves _run_module
run_module_invoke_uncaught(module_id, ld, kwargs, p, env) ==
    LET out == execute(ld.module_class, kwargs, p, env)
    IN [record |-> completed_record(module_id, ld.profile_section,
                                    IF out.result = <<>> THEN <<>> ELSE out.result[1]),
        profile |-> out.profile, out |-> out, escaped |-> out.exc]

\* lines 378-396 with execute called on a copy of the profile
run_module_invoke_copy(module_id, ld, kwargs, p, env) ==
    LET out == execute(ld.module_class, kwargs, p, env)
    IN IF out.exc = ""
       THEN [record |-> completed_record(module_id, ld.profile_section, out.result[1]),
             profile |-> p, out |-> out, escaped |-> ""]
       ELSE [record |-> failed_record(module_id, ld.profile_section, out.exc),
             profile |-> p, out |-> out, escaped |-> ""]

\* lines 378-396 of _run_module: instantiate, execute on the live profile,
\* and turn the outcome into a record; escaped is the message of an exception
\* that leaves _run_module, "" when none does
run_module_invoke(module_id, ld, kwargs, p, env) ==
    LET out == execute(ld.module_class, kwargs, p, env)
    IN IF out.exc = ""
       THEN [record |-> completed_record(module_id, ld.profile_section, out.result[1]),
             profile |-> out.profile, out |-> out, escaped |-> ""]
       ELSE [record |-> failed_record(module_id, ld.profile_section, out.exc),
             profile |-> out.profile, out |-> out, escaped |-> ""]

\* the for loop that never leaves its current element
loop_next_retry(i) == i

\* the for loop that walks execution_order from its end
current_module_reversed(order, i) == order[Len(order) + 1 - i]

\* for module_id in execution_order
loop_next(i) == i + 1

current_module(order, i) == order[i]

after_record(order, i) == IF loop_next(i) > Len(order) THEN "finish" ELSE "load"

NoClass == [module_class |-> "", profile_section |-> ""]

Event(ev, module_id, data) == [ev |-> ev, module |-> module_id, data |-> data]

EventsOf(kind) == {i \in 1..Len(trace) : trace[i].ev = kind}

ImportFailures == Cardinality({i \in EventsOf("import") : trace[i].data.failing # {}})

ToolFailures == Cardinality({i \in EventsOf("invoke") : trace[i].data.env # "ok"})

RECURSIVE WriteEvents(_, _)
WriteEvents(module_id, writes) ==
    IF writes = <<>> THEN <<>>
    ELSE <<Event("write", module_id, Head(writes))>>
             \o WriteEvents(module_id, Tail(writes))

\* lines 185-190 of _execute_impl with the profile record assigned up front
Plan_early_record ==
    /\ pc = "start"
    /\ UNCHANGED instance
    /\ LET objs == extract_objectives(profile)
           sel == select_modules(objs, extract_targets(profile))
           r == build_execution_order(sel, dependencies)
       IN /\ objectives' = objs
          /\ selected_modules' = sel
          /\ execution_order' = r.ordered
          /\ diagnostics' = r.warnings
          /\ visit_calls' = r.calls
          /\ pc' = IF r.ordered = <<>> THEN "finish" ELSE "load"
          /\ profile' = [profile EXCEPT !.orchestration =
                            <<[objectives |-> objs, selected_modules |-> sel,
                               execution_order |-> r.ordered,
                               module_results |-> <<>>]>>]
    /\ idx' = 1
    /\ module_results' = <<>>
    /\ trace' = Append(trace, Event("start", "", profile))
    /\ UNCHANGED <<dependencies, loaded, prepared, returned, raised>>
    /\ UNCHANGED planner_vars

\* lines 185-190 of _execute_impl: objectives, targets, selection, order
Plan ==
    /\ pc = "start"
    /\ UNCHANGED instance
    /\ LET objs == extract_objectives(profile)
           sel == select_modules(objs, extract_targets(profile))
           r == build_execution_order(sel, dependencies)
       IN /\ objectives' = objs
          /\ selected_modules' = sel
          /\ execution_order' = r.ordered
          /\ diagnostics' = r.warnings
          /\ visit_calls' = r.calls
          /\ pc' = IF r.ordered = <<>> THEN "finish" ELSE "load"
    /\ idx' = 1
    /\ module_results' = <<>>
    /\ trace' = Append(trace, Event("start", "", profile))
    /\ UNCHANGED <<profile, dependencies, loaded, prepared, returned, raised>>
    /\ UNCHANGED planner_vars

\* lines 358-366 of _run_module: load the class or record it unavailable
LoadModule ==
    /\ pc = "load"
    /\ UNCHANGED instance
    /\ LET module_id == current_module(execution_order, idx)
       IN \E failing \in SUBSET ImportPaths(module_id) :
            /\ failing = {} \/ ImportFailures < MaxImportFailures
            /\ LET ld == load_module_class(module_id, failing)
               IN /\ trace' = Append(trace,
                        Event("import", module_id,
                              [failing |-> failing, records |-> Len(module_results)]))
                  /\ IF ld.module_class = ""
                     THEN /\ module_results' = Append(module_results,
                                 unavailable_record(module_id, ld.profile_section))
                          /\ idx' = loop_next(idx)
                          /\ pc' = after_record(execution_order, idx)
                          /\ loaded' = NoClass
                     ELSE /\ loaded' = ld
                          /\ pc' = "prepare"
                          /\ UNCHANGED <<idx, module_results>>
    /\ UNCHANGED <<profile, dependencies, objectives, selected_modules,
                   execution_order, diagnostics, visit_calls, prepared,
                   returned, raised>>
    /\ UNCHANGED planner_vars

\* lines 369-377 of _run_module: constructor arguments or the skipped record
PrepareModule ==
    /\ pc = "prepare"
    /\ UNCHANGED instance
    /\ LET module_id == current_module(execution_order, idx)
           pr == prepare_module_kwargs(module_id, profile)
       IN IF pr.skip_reason # ""
          THEN /\ module_results' = Append(module_results,
                      skipped_record(module_id, loaded.profile_section, pr.skip_reason))
               /\ idx' = loop_next(idx)
               /\ pc' = after_record(execution_order, idx)
               /\ loaded' = NoClass
               /\ prepared' = NoKwargs
          ELSE /\ prepared' = pr.kwargs
               /\ pc' = "running"
               /\ UNCHANGED <<idx, module_results, loaded>>
    /\ UNCHANGED <<profile, dependencies, objectives, selected_modules,
                   execution_order, diagnostics, visit_calls, returned, raised,
                   trace>>
    /\ UNCHANGED planner_vars

\* lines 378-396 of _run_module and line 193 of _execute_impl
ExecuteModule ==
    /\ pc = "running"
    /\ UNCHANGED instance
    /\ LET module_id == current_module(execution_order, idx)
       IN \E env \in Environments(loaded.module_class) :
            /\ env = "ok" \/ ToolFailures < MaxToolFailures
            /\ LET r == run_module_invoke(module_id, loaded, prepared, profile, env)
               IN /\ trace' = trace
                        \o <<Event("invoke", module_id,
                                   [profile |-> profile, env |-> env,
                                    records |-> Len(module_results)])>>
                        \o WriteEvents(module_id, r.out.writes)
                        \o (IF r.out.exc # ""
                            THEN <<Event("raise", module_id,
                                         [message |-> r.out.exc,
                                          records |-> Len(module_results)])>>
                            ELSE <<>>)
                  /\ profile' = r.profile
                  /\ IF r.escaped # ""
                     THEN /\ raised' = r.escaped
                          /\ pc' = "aborted"
                          /\ UNCHANGED <<idx, module_results>>
                     ELSE /\ module_results' = Append(module_results, r.record)
                          /\ idx' = loop_next(idx)
                          /\ pc' = after_record(execution_order, idx)
                          /\ UNCHANGED raised
    /\ loaded' = NoClass
    /\ prepared' = NoKwargs
    /\ UNCHANGED <<dependencies, objectives, selected_modules, execution_order,
                   diagnostics, visit_calls, returned>>
    /\ UNCHANGED planner_vars

\* lines 195-211 with objectives, selection and order derived again from the
\* profile as the modules left it
Finish_replanned ==
    /\ pc = "finish"
    /\ UNCHANGED instance
    /\ LET objs == extract_objectives(profile)
           sel == select_modules(objs, extract_targets(profile))
           orchestration ==
               [objectives |-> objs, selected_modules |-> sel,
                execution_order |-> build_execution_order(sel, dependencies).ordered,
                module_results |-> module_results]
       IN /\ profile' = [profile EXCEPT !.orchestration = <<orchestration>>]
          /\ returned' = <<orchestration>>
    /\ pc' = "done"
    /\ UNCHANGED <<dependencies, objectives, selected_modules, execution_order,
                   diagnostics, visit_calls, idx, module_results, loaded,
                   prepared, raised, trace>>
    /\ UNCHANGED planner_vars

\* lines 195-211 of _execute_impl: assemble the record, write it, return it
Finish ==
    /\ pc = "finish"
    /\ UNCHANGED instance
    /\ LET orchestration ==
               [objectives |-> objectives, selected_modules |-> selected_modules,
                execution_order |-> execution_order,
                module_results |-> module_results]
       IN /\ profile' = [profile EXCEPT !.orchestration = <<orchestration>>]
          /\ returned' = <<orchestration>>
    /\ pc' = "done"
    /\ UNCHANGED <<dependencies, objectives, selected_modules, execution_order,
                   diagnostics, visit_calls, idx, module_results, loaded,
                   prepared, raised, trace>>
    /\ UNCHANGED planner_vars

----------------------------------------------------------------------------
(* Specification Spec: one orchestration run over a bounded set of profiles *)

doc_name_typed == <<"M", "a", "p", " ", "w", "e", "b", " ", "d", "o", "c", "u", "m", "e", "n", "t", "s">>

doc_type_objective == <<"O", "b", "j", "e", "c", "t", "i", "v", "e">>

doc_name_prefixed == <<"g", "o", "a", "l", ":", " ", "f", "i", "n", "d", " ", "e", "m", "a", "i", "l">>

doc_type_note == <<"n", "o", "t", "e">>

\* the metadata.documents lists of the profiles: none, one document typed as an
\* objective, one document named with the goal: prefix
DocumentLists ==
    {<<>>,
     <<[name |-> doc_name_typed, type |-> doc_type_objective]>>,
     <<[name |-> doc_name_prefixed, type |-> doc_type_note]>>}

\* the record a previous run left in the profile
PreviousOrchestration ==
    [objectives |-> <<general_osint_collection>>, selected_modules |-> <<>>,
     execution_order |-> <<>>, module_results |-> <<>>]

ProfileInputs ==
    {[full_name |-> n, emails |-> e, phones |-> ph, usernames |-> u,
      domains |-> d, ips |-> i, company_names |-> c,
      metadata |-> [documents |-> docs],
      devices |-> <<>>, intelligence |-> <<>>, orchestration |-> o] :
        n \in {"", "Jane Doe"},
        e \in {<<>>, <<"jane@co.io">>},
        ph \in {<<>>, <<"+61400000000">>},
        u \in {<<>>, <<"janedoe">>},
        d \in {<<>>, <<"co.io">>},
        i \in {<<>>, <<"203.0.113.7">>},
        c \in {<<>>, <<"Doe Holdings">>},
        docs \in DocumentLists,
        o \in {<<>>}}

\* the profiles without documents, IP addresses and company names
PlainProfiles ==
    {p \in ProfileInputs :
        p.metadata.documents = <<>> /\ p.ips = <<>> /\ p.company_names = <<>>}

\* profiles a previous run has already left its record in
RerunProfiles ==
    {[p EXCEPT !.orchestration = <<PreviousOrchestration>>] : p \in PlainProfiles}

\* profiles whose business.company_names holds one blank entry, with an IP
\* address that brings SpiderFoot and so Recon-ng into the run
BlankCompanyProfiles ==
    {[p EXCEPT !.company_names = <<"">>] :
        p \in {q \in ProfileInputs :
                  /\ q.metadata.documents = <<>>
                  /\ q.ips # <<>>
                  /\ q.company_names = <<>>}}

\* the dependency table with a dependency that has no registry entry
DependenciesUnregistered ==
    [ShippedDependencies EXCEPT !["Sherlock"] = <<UnknownModule>>]

\* the dependency table with a cycle between theHarvester and Recon-ng
DependenciesCyclic ==
    [ShippedDependencies EXCEPT !["theHarvester"] = <<"Recon-ng">>]


Init ==
    /\ PlannerIdle
    /\ pc = "start"
    /\ instance = NoInstance
    /\ \/ /\ profile \in ProfileInputs \cup RerunProfiles \cup BlankCompanyProfiles
          /\ dependencies = ShippedDependencies
       \/ /\ profile \in PlainProfiles
          /\ dependencies \in {DependenciesUnregistered, DependenciesCyclic}
    /\ objectives = <<>>
    /\ selected_modules = <<>>
    /\ execution_order = <<>>
    /\ diagnostics = <<>>
    /\ visit_calls = 0
    /\ idx = 0
    /\ module_results = <<>>
    /\ loaded = NoClass
    /\ prepared = NoKwargs
    /\ returned = <<>>
    /\ raised = ""
    /\ trace = <<>>

Next == Plan \/ LoadModule \/ PrepareModule \/ ExecuteModule \/ Finish

Spec == Init /\ [][Next]_vars

----------------------------------------------------------------------------
(* Properties of one orchestration run (specification Spec) *)

\* the profile the run started from
StartProfile == trace[1].data

\* the record produced by the step that logged trace[i], once it exists
RecordAfter(i) == module_results[trace[i].data.records + 1]

HasRecordAfter(i) == Len(module_results) > trace[i].data.records

\* every module after position k of the order was loaded later than trace[i]
LoadedAfter(i, k) ==
    \A n \in (k + 1)..Len(execution_order) :
        \E j \in EventsOf("import") :
            j > i /\ trace[j].module = execution_order[n]

AllRecorded == Len(module_results) = Len(execution_order)

Statuses == {module_results[j].status : j \in 1..Len(module_results)}

\* C1: a module whose execute raises is recorded as failed with the message
\* of the exception as summary, and every module after it in the order is
\* still loaded and gets its own record
C1_FailureRecordedRunContinues ==
    \A i \in EventsOf("raise") :
        /\ HasRecordAfter(i)
        /\ RecordAfter(i).module = trace[i].module
        /\ RecordAfter(i).status = "failed"
        /\ RecordAfter(i).summary = trace[i].data.message
        /\ pc = "done" =>
              /\ AllRecorded
              /\ LoadedAfter(i, trace[i].data.records + 1)

\* theHarvester raised (no domain in the profile) and a module after it in
\* the order ran to completion
C1_Witness ==
    /\ pc = "done"
    /\ \E j \in 1..Len(module_results) :
          /\ module_results[j].module = "theHarvester"
          /\ module_results[j].status = "failed"
          /\ module_results[j].summary =
                 "No target domain provided or available in profile.digital.domains"
          /\ \E n \in (j + 1)..Len(module_results) :
                module_results[n].status = "completed"

\* no candidate of the registry entry of module_id can be loaded
AllCandidatesFail(module_id, failing) ==
    \A c \in 1..Len(MODULE_REGISTRY[module_id]) :
        \/ MODULE_REGISTRY[module_id][c].import_path \in failing
        \/ <<MODULE_REGISTRY[module_id][c].import_path,
             MODULE_REGISTRY[module_id][c].class_name>> \notin DefinedClasses

\* C2: a module whose implementation cannot be imported is recorded as
\* unavailable with no output keys, is never invoked, nothing is raised, and
\* the modules after it are processed
C2_UnavailableRecordedRunContinues ==
    /\ raised = ""
    /\ \A i \in EventsOf("import") :
          AllCandidatesFail(trace[i].module, trace[i].data.failing) =>
              /\ HasRecordAfter(i)
              /\ RecordAfter(i).module = trace[i].module
              /\ RecordAfter(i).status = "unavailable"
              /\ RecordAfter(i).output_keys = <<>>
              /\ \A j \in EventsOf("invoke") : trace[j].module # trace[i].module
              /\ pc = "done" =>
                    /\ AllRecorded
                    /\ LoadedAfter(i, trace[i].data.records + 1)

\* a run in which a module without registry entry and a module whose import
\* failed were both recorded unavailable, and a module after them completed
C2_Witness ==
    /\ pc = "done"
    /\ \E j, k \in 1..Len(module_results) :
          /\ module_results[j].module = UnknownModule
          /\ module_results[j].status = "unavailable"
          /\ module_results[j].profile_section = "unknown"
          /\ module_results[j].output_keys = <<>>
          /\ module_results[k].status = "unavailable"
          /\ \E i \in EventsOf("import") :
                /\ trace[i].module = module_results[k].module
                /\ trace[i].data.failing # {}
          /\ \E n \in 1..Len(module_results) :
                n > j /\ n > k /\ module_results[n].status = "completed"

\* the lifecycle state of a module: pending until it is invoked or recorded
Lifecycle(module_id, position, results, order, at) ==
    IF \E j \in 1..Len(results) : results[j].module = module_id
    THEN results[CHOOSE j \in 1..Len(results) : results[j].module = module_id].status
    ELSE IF at = "running" /\ position \in 1..Len(order) /\ order[position] = module_id
    THEN "running"
    ELSE "pending"

LifecycleStep(from, to) ==
    \/ from = to /\ from \in {"pending", "running"}
    \/ from = to /\ from \in {"unavailable", "skipped", "completed", "failed"}
    \/ from = "pending" /\ to \in {"unavailable", "skipped", "running"}
    \/ from = "running" /\ to \in {"completed", "failed"}

\* C5: every module moves Pending -> Unavailable | Skipped | Running ->
\* Completed | Failed; a record once produced never changes; no module is
\* loaded or invoked twice, and a finished run holds one record per module
C5_LifecycleNoRetry ==
    /\ [][\A module_id \in ModuleIds :
             LifecycleStep(
                 Lifecycle(module_id, idx, module_results, execution_order, pc),
                 Lifecycle(module_id, idx', module_results', execution_order', pc'))]_vars
    /\ [][\A j \in 1..Len(module_results) :
             /\ Len(module_results') >= j
             /\ module_results'[j] = module_results[j]]_vars
    /\ [](\A module_id \in ModuleIds :
             /\ Cardinality({i \in EventsOf("import") : trace[i].module = module_id}) <= 1
             /\ Cardinality({i \in EventsOf("invoke") : trace[i].module = module_id}) <= 1
             /\ Cardinality({j \in 1..Len(module_results) :
                                 module_results[j].module = module_id}) <= 1)
    /\ [](pc = "done" =>
             \A n \in 1..Len(execution_order) :
                 \E j \in 1..Len(module_results) :
                     module_results[j].module = execution_order[n])

\* a finished run that produced all four terminal states
C5_Witness ==
    /\ pc = "done"
    /\ Statuses = {"unavailable", "skipped", "completed", "failed"}

\* C6: the records follow the execution order one to one, and a module is
\* loaded and invoked only when exactly the modules before it have a record
C6_SequentialInOrder ==
    /\ Len(module_results) <= Len(execution_order)
    /\ \A j \in 1..Len(module_results) :
          module_results[j].module = execution_order[j]
    /\ pc = "done" => AllRecorded
    /\ \A i \in EventsOf("import") \cup EventsOf("invoke") :
          /\ trace[i].data.records < Len(execution_order)
          /\ trace[i].module = execution_order[trace[i].data.records + 1]
    /\ pc = "running" =>
          /\ Len(module_results) = idx - 1
          /\ \A j \in 1..Len(module_results) :
                module_results[j].module # execution_order[idx]

\* the fifth module of a seven-module order is about to be invoked: the four
\* before it have their records
C6_Witness ==
    /\ pc = "running"
    /\ Len(execution_order) = 7
    /\ idx = 5
    /\ Len(module_results) = 4

\* C7: no exception leaves the run: missing objectives and targets fall back
\* to defaults, unloadable, skipped and failing modules become records, the
\* run is never aborted and always stands at a step it can take, and it ends
\* with the orchestration record returned and written
C7_OnlyRecordedFailures ==
    /\ raised = ""
    /\ pc \in {"start", "load", "prepare", "running", "finish", "done"}
    /\ pc \in {"load", "prepare", "running"} => idx \in 1..Len(execution_order)
    /\ pc \in {"prepare", "running"} => loaded.module_class # ""
    /\ \A i \in EventsOf("raise") :
          HasRecordAfter(i) /\ RecordAfter(i).status = "failed"
    /\ pc = "done" =>
          /\ returned # <<>>
          /\ profile.orchestration = returned
          /\ Len(returned[1].module_results) = Len(returned[1].execution_order)
          /\ returned[1].execution_order # <<>>
          /\ returned[1].objectives # <<>>

\* a profile without targets and objectives under a cyclic dependency table:
\* the default objective and selection are used, the cycle is logged, a module
\* fails, Recon-ng is skipped, another module cannot be imported, and the
\* record is produced all the same
C7_Witness ==
    /\ pc = "done"
    /\ raised = ""
    /\ diagnostics # <<>>
    /\ returned[1].objectives = <<general_osint_collection>>
    /\ {"failed", "skipped", "unavailable"} \subseteq Statuses

\* the invocation that follows invocation a, if any
NextInvoke(a) ==
    {b \in EventsOf("invoke") :
        b > a /\ \A c \in EventsOf("invoke") : ~(a < c /\ c < b)}

Raised(a) ==
    \E i \in EventsOf("raise") :
        trace[i].module = trace[a].module /\ trace[i].data.records = trace[a].data.records

\* C8: the module invoked next after a module that failed is handed the
\* profile as it was just before the failed module was invoked
C8_FailedModuleLeavesProfile ==
    \A a \in EventsOf("invoke") :
        Raised(a) =>
            /\ \A b \in NextInvoke(a) : trace[b].data.profile = trace[a].data.profile
            /\ (NextInvoke(a) = {} /\ pc # "done") => profile = trace[a].data.profile

\* Recon-ng found its tool missing after a target was derived; SpiderFoot,
\* invoked next, wrote its own result into a profile without Recon-ng's
C8_Witness ==
    /\ Len(module_results) >= 3
    /\ module_results[2].module = "Recon-ng"
    /\ module_results[2].status = "failed"
    /\ module_results[3].module = "SpiderFoot"
    /\ module_results[3].status = "completed"
    /\ profile.intelligence # <<>>
    /\ profile.intelligence[1].tool = "spiderfoot"

IsWrite(e) == e.ev = "write"

\* the assignments logged before trace[b], in order
WritesBefore(b) ==
    LET events == SelectSeq(SubSeq(trace, 1, b - 1), IsWrite)
    IN [n \in 1..Len(events) |-> events[n].data]

\* C9: the profile a module is invoked on is the start profile with the
\* assignments of all earlier modules of the order applied in order (a later
\* assignment to a section replacing an earlier one), every such assignment
\* comes from a module that completed, and none from a module at the same or
\* a later position
C9_SeesAllEarlierWrites ==
    \A b \in EventsOf("invoke") :
        /\ trace[b].data.profile = apply_writes(StartProfile, WritesBefore(b))
        /\ \A w \in EventsOf("write") :
              w < b =>
                  \E j \in 1..trace[b].data.records :
                      /\ module_results[j].module = trace[w].module
                      /\ module_results[j].status = "completed"

\* GHunt is invoked on a profile that holds SpiderFoot's intelligence, which
\* replaced the one Recon-ng wrote before it
C9_Witness ==
    \E b \in EventsOf("invoke") :
        /\ trace[b].module = "GHunt"
        /\ Len(WritesBefore(b)) = 2
        /\ WritesBefore(b)[1].value[1].tool = "reconng"
        /\ WritesBefore(b)[2].value[1].tool = "spiderfoot"
        /\ trace[b].data.profile.intelligence[1].tool = "spiderfoot"

TerminalStatuses == {"unavailable", "skipped", "completed", "failed"}

\* C10: until the run is done the orchestration section is the one the run
\* started with and the orchestrator assigns nothing else to the profile; the
\* record written at the end holds the objectives, the selection, the order
\* and one terminal record per module; no module is invoked on a profile
\* holding the record of the run it belongs to
C10_RecordWrittenLast ==
    /\ (trace # <<>> /\ pc # "done") =>
          /\ profile.orchestration = StartProfile.orchestration
          /\ profile = apply_writes(StartProfile, WritesBefore(Len(trace) + 1))
    /\ \A b \in EventsOf("invoke") :
          trace[b].data.profile.orchestration = StartProfile.orchestration
    /\ pc = "done" =>
          /\ profile.orchestration =
                <<[objectives |-> objectives, selected_modules |-> selected_modules,
                   execution_order |-> execution_order,
                   module_results |-> module_results]>>
          /\ AllRecorded
          /\ \A j \in 1..Len(module_results) :
                /\ module_results[j].module = execution_order[j]
                /\ module_results[j].status \in TerminalStatuses
          /\ [profile EXCEPT !.orchestration = StartProfile.orchestration]
                = apply_writes(StartProfile, WritesBefore(Len(trace) + 1))

\* a run over a profile that held the record of an earlier run: its modules
\* saw the old record, the new one replaced it at the end
C10_Witness ==
    /\ pc = "done"
    /\ StartProfile.orchestration = <<PreviousOrchestration>>
    /\ profile.orchestration # <<PreviousOrchestration>>
    /\ Len(profile.orchestration[1].module_results) >= 2
    /\ \E b \in EventsOf("invoke") :
          trace[b].data.profile.orchestration = <<PreviousOrchestration>>

----------------------------------------------------------------------------
(* Properties of the skipped path of _run_module                             *)

\* the profile offers nothing _derive_reconng_target could return
NoReconngTarget(p) ==
    /\ p.domains = <<>>
    /\ p.company_names = <<>>
    /\ p.emails = <<>>
    /\ p.phones = <<>>
    /\ p.full_name = ""

\* the step taken for a loaded module that cannot run with the profile
SkipStep ==
    (/\ pc = "prepare"
     /\ current_module(execution_order, idx) = "Recon-ng"
     /\ NoReconngTarget(profile))
    => /\ Len(module_results') = Len(module_results) + 1
       /\ SubSeq(module_results', 1, Len(module_results)) = module_results
       /\ LET record == module_results'[Len(module_results')]
          IN /\ record.module = "Recon-ng"
             /\ record.status = "skipped"
             /\ record.summary # ""
             /\ record.output_keys = <<>>
       /\ profile' = profile
       /\ trace' = trace
       /\ idx' = idx + 1
       /\ pc' = IF idx < Len(execution_order) THEN "load" ELSE "finish"

\* no invocation of the module stands between the records around a skip
SkippedNeverInvoked ==
    \A k \in 1..Len(module_results) :
        module_results[k].status = "skipped" =>
            /\ module_results[k].summary # ""
            /\ \A e \in EventsOf("invoke") :
                   ~(trace[e].module = module_results[k].module
                       /\ trace[e].data.records = k - 1)

\* C22: when the precondition check of a loadable module finds it cannot run
\* with the current profile, its record has status skipped and a non-empty
\* reason as summary, the module is neither instantiated nor invoked and the
\* profile stays as it is, and the run goes on with the next module.
C22_SkippedRecordedRunContinues ==
    /\ [][SkipStep]_vars
    /\ [](SkippedNeverInvoked)
    /\ [](pc = "done" => Len(module_results) = Len(execution_order))

\* a finished run with a skipped record that is followed by a later record
C22_Witness ==
    /\ pc = "done"
    /\ \E k \in 1..Len(module_results) :
          /\ module_results[k].status = "skipped"
          /\ k < Len(module_results)
          /\ module_results[k + 1].status \in {"completed", "failed"}

----------------------------------------------------------------------------
(* Planning happens once                                                     *)

\* the selection the profile p would yield
SelectionOf(p) == select_modules(extract_objectives(p), extract_targets(p))

\* the planning step computes objectives, selection and order from the
\* profile the run starts on
PlannedFromStart ==
    pc = "start" =>
        /\ profile' = profile
        /\ objectives' = extract_objectives(profile)
        /\ selected_modules' = SelectionOf(profile)
        /\ execution_order' =
               build_execution_order(selected_modules', dependencies).ordered

\* the record of the run reports them, and one result per module of the order
RecordReportsPlan ==
    pc = "done" =>
        /\ returned[1].objectives = objectives
        /\ returned[1].selected_modules = selected_modules
        /\ returned[1].execution_order = execution_order
        /\ profile.orchestration = returned
        /\ Len(module_results) = Len(execution_order)
        /\ \A k \in 1..Len(execution_order) :
               module_results[k].module = execution_order[k]

\* C25: objectives, selected set and execution order are computed once from
\* the profile as it is before the first module runs and stay unchanged for
\* the rest of the run; what the modules write to the profile adds, removes
\* or reorders no module of that run.
C25_PlannedOnce ==
    /\ [][PlannedFromStart]_vars
    /\ [][pc # "start" =>
              UNCHANGED <<objectives, selected_modules, execution_order>>]_vars
    /\ [](RecordReportsPlan)

\* a finished run in which a module added a domain to the profile, so that the
\* profile now would select modules the run never had
C25_Witness ==
    /\ pc = "done"
    /\ \E e \in EventsOf("write") : trace[e].data.section = "digital"
    /\ StartProfile.domains = <<>>
    /\ profile.domains # <<>>
    /\ ~(Range(SelectionOf(profile)) \subseteq Range(execution_order))

\* the record appended by the step, if the step appends one
AppendedRecord == module_results'[Len(module_results')]

\* C28: Recon-ng is the only module recorded as skipped, and it is skipped
\* exactly when, at its turn after the writes of the modules before it, the
\* profile has no digital.domains, no business.company_names, no
\* contact.emails, no contact.phones and no identity.full_name.
C28_OnlyReconngSkippedWithoutTarget ==
    [][/\ (Len(module_results') > Len(module_results)
             /\ AppendedRecord.status = "skipped")
          => AppendedRecord.module = "Recon-ng"
       /\ (pc = "prepare" /\ current_module(execution_order, idx) = "Recon-ng")
          => ((/\ Len(module_results') > Len(module_results)
               /\ AppendedRecord.status = "skipped")
              <=> NoReconngTarget(profile))]_vars

----------------------------------------------------------------------------
(* Specification OrderSpec: _build_execution_order applied to every          *)
(* selection and every dependency table over a small module universe        *)

\* two prioritised ids and one id outside MODULE_PRIORITY
OrderUniverse == {"theHarvester", "Recon-ng", UnknownModule}

DependencyTables ==
    {[m \in ModuleIds |-> IF m \in OrderUniverse THEN t[m] ELSE <<>>] :
        t \in [OrderUniverse -> SeqsNoDup(OrderUniverse, MaxDeps)]}

EmptyProfile ==
    [full_name |-> "", emails |-> <<>>, phones |-> <<>>, usernames |-> <<>>,
     domains |-> <<>>, ips |-> <<>>, company_names |-> <<>>,
     metadata |-> [documents |-> <<>>], devices |-> <<>>, intelligence |-> <<>>,
     orchestration |-> <<>>]

InitOrder ==
    /\ PlannerIdle
    /\ pc = "order_input"
    /\ instance = NoInstance
    /\ dependencies \in DependencyTables
    /\ selected_modules \in {order_modules(S) : S \in SUBSET OrderUniverse}
    /\ profile = EmptyProfile
    /\ objectives = <<>>
    /\ execution_order = <<>>
    /\ diagnostics = <<>>
    /\ visit_calls = 0
    /\ idx = 0
    /\ module_results = <<>>
    /\ loaded = NoClass
    /\ prepared = NoKwargs
    /\ returned = <<>>
    /\ raised = ""
    /\ trace = <<>>

BuildOrder ==
    /\ pc = "order_input"
    /\ UNCHANGED instance
    /\ LET r == build_execution_order(selected_modules, dependencies)
       IN /\ execution_order' = r.ordered
          /\ diagnostics' = r.warnings
          /\ visit_calls' = r.calls
    /\ pc' = "order_done"
    /\ UNCHANGED <<profile, dependencies, objectives, selected_modules, idx,
                   module_results, loaded, prepared, returned, raised, trace>>
    /\ UNCHANGED planner_vars

NextOrder == BuildOrder

OrderSpec == InitOrder /\ [][NextOrder]_vars

----------------------------------------------------------------------------
(* Properties of _build_execution_order *)

\* m reaches n through one or more dependency edges
RECURSIVE ReachableFrom(_, _)
ReachableFrom(S, deps) ==
    LET more == S \cup UNION {Range(deps[m]) : m \in S}
    IN IF more = S THEN S ELSE ReachableFrom(more, deps)

DependsOn(m, deps) == ReachableFrom(Range(deps[m]), deps)

Acyclic(deps) == \A m \in ModuleIds : m \notin DependsOn(m, deps)

DependenciesFirst(order, deps) ==
    \A i \in 1..Len(order) :
        \A d \in Range(deps[order[i]]) :
            \E j \in 1..(i - 1) : order[j] = d

\* C3: for every selection and every acyclic dependency table the returned
\* sequence lists each module after all of its declared dependencies
C3_DependenciesBeforeDependents ==
    (pc = "order_done" /\ Acyclic(dependencies))
        => DependenciesFirst(execution_order, dependencies)

\* an acyclic table whose dependency edge runs against MODULE_PRIORITY:
\* theHarvester is first by priority, yet is emitted after Recon-ng
C3_Witness ==
    /\ pc = "order_done"
    /\ Acyclic(dependencies)
    /\ dependencies["theHarvester"] = <<"Recon-ng">>
    /\ dependencies["Recon-ng"] = <<UnknownModule>>
    /\ selected_modules = <<"theHarvester">>
    /\ execution_order = <<UnknownModule, "Recon-ng", "theHarvester">>

\* C4: for every dependency table, cyclic ones included, the ordering
\* terminates (visit is called at most once per loop entry and once per
\* dependency edge of the closure) and every module of the closure, so every
\* module it visits, appears exactly once in the result
C4_TerminatesEachModuleOnce ==
    pc = "order_done" =>
        LET expanded == expand_closure(Range(selected_modules), dependencies)
        IN /\ NoDuplicates(execution_order)
           /\ Range(execution_order) = expanded
           /\ visit_calls <= Cardinality(expanded) * (1 + MaxDeps)

\* the cycle theHarvester -> Recon-ng -> theHarvester: both are returned once
\* and the back edge was reported
C4_Witness ==
    /\ pc = "order_done"
    /\ dependencies["theHarvester"] = <<"Recon-ng">>
    /\ dependencies["Recon-ng"] = <<"theHarvester">>
    /\ selected_modules = <<"theHarvester">>
    /\ execution_order = <<"Recon-ng", "theHarvester">>
    /\ diagnostics = <<"theHarvester">>

\* the chains of dependency edges that start at a selected module
DependencyChains(selected, deps) ==
    {c \in UNION {[1..k -> OrderUniverse] : k \in 1..Cardinality(OrderUniverse)} :
        /\ c[1] \in Range(selected)
        /\ \A i \in 1..(Len(c) - 1) : c[i + 1] \in Range(deps[c[i]])}

\* C11: the modules of the returned sequence are exactly the selected modules
\* and the modules a chain of dependency edges leads to from a selected one
C11_OrderIsDependencyClosure ==
    pc = "order_done" =>
        /\ Range(selected_modules) \subseteq Range(execution_order)
        /\ Range(execution_order) =
              {c[Len(c)] : c \in DependencyChains(selected_modules, dependencies)}

\* theHarvester alone is selected; Recon-ng comes in as its dependency and the
\* unprioritised module as a dependency of that dependency
C11_Witness ==
    /\ pc = "order_done"
    /\ selected_modules = <<"theHarvester">>
    /\ dependencies["theHarvester"] = <<"Recon-ng">>
    /\ dependencies["Recon-ng"] = <<UnknownModule>>
    /\ dependencies[UnknownModule] = <<>>
    /\ Range(execution_order) = OrderUniverse

----------------------------------------------------------------------------
(* Specification ShippedOrderSpec: _build_execution_order with the shipped   *)
(* dependency table, over every selection of modules of MODULE_PRIORITY      *)

InitShippedOrder ==
    /\ PlannerIdle
    /\ pc = "order_input"
    /\ instance = NoInstance
    /\ dependencies = ShippedDependencies
    /\ selected_modules \in {order_modules(S) : S \in SUBSET Range(MODULE_PRIORITY)}
    /\ profile = EmptyProfile
    /\ objectives = <<>>
    /\ execution_order = <<>>
    /\ diagnostics = <<>>
    /\ visit_calls = 0
    /\ idx = 0
    /\ module_results = <<>>
    /\ loaded = NoClass
    /\ prepared = NoKwargs
    /\ returned = <<>>
    /\ raised = ""
    /\ trace = <<>>

ShippedOrderSpec == InitShippedOrder /\ [][NextOrder]_vars

\* every dependency stands before its dependent in MODULE_PRIORITY
PriorityRespectsDependencies ==
    \A m \in Range(MODULE_PRIORITY) :
        \A d \in Range(dependencies[m]) :
            /\ d \in Range(MODULE_PRIORITY)
            /\ IndexOf(MODULE_PRIORITY, d) < IndexOf(MODULE_PRIORITY, m)

\* C26: with the shipped dependency table and MODULE_PRIORITY, the execution
\* order of every selection is its dependency closure sorted by
\* MODULE_PRIORITY, theHarvester comes first whenever it is in the closure,
\* and no dependency cycle is reported.
C26_ShippedOrderIsPriorityOrder ==
    /\ PriorityRespectsDependencies
    /\ pc = "order_done" =>
          LET closure == ReachableFrom(Range(selected_modules), dependencies)
          IN /\ execution_order = FilterSeq(MODULE_PRIORITY, closure)
             /\ "theHarvester" \in closure => execution_order[1] = "theHarvester"
             /\ diagnostics = <<>>

\* Metagoofil and GHunt selected: Photon and theHarvester join, theHarvester
\* leads, and GHunt follows Metagoofil as in MODULE_PRIORITY
C26_Witness ==
    /\ pc = "order_done"
    /\ selected_modules = <<"Metagoofil", "GHunt">>
    /\ execution_order = <<"theHarvester", "Photon", "Metagoofil", "GHunt">>

----------------------------------------------------------------------------
(* Specification PlanSpec: _extract_objectives, _extract_targets and          *)
(* _select_modules applied to a bounded set of profiles                      *)

\* the longest metadata.documents list of a profile
MaxDocs == 2

\* name "   " typed goal: an objective document without a usable name
doc_blank_goal == [name |-> <<" ", " ", " ">>, type |-> <<"g", "o", "a", "l">>]

\* name "Goal:": the text after the colon is empty, the name itself is kept
doc_bare_prefix == [name |-> <<"G", "o", "a", "l", ":">>, type |-> <<>>]

\* name "OBJECTIVE: Twitter IP": prefix and keywords in upper case
doc_upper_prefix ==
    [name |-> <<"O", "B", "J", "E", "C", "T", "I", "V", "E", ":", " ", "T", "w", "i", "t", "t", "e", "r", " ", "I", "P">>, type |-> <<>>]

\* name "phone list" typed note: keywords, but not an objective
doc_plain_note == [name |-> <<"p", "h", "o", "n", "e", " ", "l", "i", "s", "t">>, type |-> doc_type_note]

\* name "x" typed " Objectives ": the type is stripped and lower-cased
doc_typed_plural ==
    [name |-> <<"x">>, type |-> <<" ", "O", "b", "j", "e", "c", "t", "i", "v", "e", "s", " ">>]

PlanDocuments ==
    {[name |-> doc_name_typed, type |-> doc_type_objective],
     [name |-> doc_name_prefixed, type |-> doc_type_note],
     doc_blank_goal, doc_bare_prefix, doc_upper_prefix, doc_plain_note,
     doc_typed_plural}

PlanDocumentLists == UNION {[1..k -> PlanDocuments] : k \in 0..MaxDocs}

\* the profile without its metadata section
WithoutMetadata(p) == [f \in DOMAIN p \ {"metadata"} |-> p[f]]

PlanTargets ==
    {[EmptyProfile EXCEPT !.full_name = n, !.emails = e, !.phones = ph,
                          !.usernames = u, !.domains = d, !.ips = i] :
        n \in {"", "Jane Doe"},
        e \in {<<>>, <<"jane@co.io">>},
        ph \in {<<>>, <<"+61400000000">>},
        u \in {<<>>, <<"janedoe">>},
        d \in {<<>>, <<"co.io">>},
        i \in {<<>>, <<"203.0.113.7">>}}

\* the targets the profiles with documents are built on
DocumentTargets ==
    {p \in PlanTargets : p.full_name = "" /\ p.phones = <<>> /\ p.ips = <<>>}

\* profiles without a metadata section, with an empty one, and with documents
PlanProfiles ==
    {WithoutMetadata(p) : p \in PlanTargets}
    \cup {[p EXCEPT !.metadata = <<>>] : p \in PlanTargets}
    \cup {[p EXCEPT !.metadata = [documents |-> <<>>]] : p \in PlanTargets}
    \cup {[p EXCEPT !.metadata = [documents |-> docs]] :
             p \in DocumentTargets, docs \in PlanDocumentLists}

InitPlan ==
    /\ PlannerIdle
    /\ pc = "plan_input"
    /\ instance = NoInstance
    /\ profile \in PlanProfiles
    /\ dependencies = ShippedDependencies
    /\ objectives = <<>>
    /\ selected_modules = <<>>
    /\ execution_order = <<>>
    /\ diagnostics = <<>>
    /\ visit_calls = 0
    /\ idx = 0
    /\ module_results = <<>>
    /\ loaded = NoClass
    /\ prepared = NoKwargs
    /\ returned = <<>>
    /\ raised = ""
    /\ trace = <<>>

\* line 185 of _execute_impl
ExtractObjectives ==
    /\ pc = "plan_input"
    /\ UNCHANGED instance
    /\ objectives' = extract_objectives(profile)
    /\ pc' = "objectives"
    /\ UNCHANGED <<profile, dependencies, selected_modules, execution_order,
                   diagnostics, visit_calls, idx, module_results, loaded,
                   prepared, returned, raised, trace>>
    /\ UNCHANGED planner_vars

\* lines 186-187 of _execute_impl
SelectModules ==
    /\ pc = "objectives"
    /\ UNCHANGED instance
    /\ selected_modules' = select_modules(objectives, extract_targets(profile))
    /\ pc' = "selected"
    /\ UNCHANGED <<profile, dependencies, objectives, execution_order,
                   diagnostics, visit_calls, idx, module_results, loaded,
                   prepared, returned, raised, trace>>
    /\ UNCHANGED planner_vars

NextPlan == ExtractObjectives \/ SelectModules

PlanSpec == InitPlan /\ [][NextPlan]_vars

----------------------------------------------------------------------------
(* Properties of objective extraction and module selection *)

\* the documents of the profile, none when the section or the list is missing
Documents ==
    IF "metadata" \in DOMAIN profile /\ "documents" \in DOMAIN profile.metadata
    THEN profile.metadata.documents
    ELSE <<>>

\* the document is typed as an objective or a goal
TypedObjective(doc) ==
    \/ StartsWith(Lower(Strip(doc.type)), str_objective)
    \/ Lower(Strip(doc.type)) = str_goal

\* the document contributes an objective: it is typed as one and has a name,
\* or is not typed as one and its name carries the objective: or goal: prefix
Contributes(doc) ==
    \/ TypedObjective(doc) /\ Strip(doc.name) # <<>>
    \/ /\ ~TypedObjective(doc)
       /\ \/ StartsWith(Lower(Strip(doc.name)), str_objective_colon)
          \/ StartsWith(Lower(Strip(doc.name)), str_goal_colon)

\* C13: the objectives are never empty, and are exactly the default objective
\* when no document of the profile contributes one
C13_ObjectivesDefault ==
    pc \in {"objectives", "selected"} =>
        /\ objectives # <<>>
        /\ (\A i \in 1..Len(Documents) : ~Contributes(Documents[i]))
              => objectives = <<general_osint_collection>>
        /\ (\E i \in 1..Len(Documents) : Contributes(Documents[i]))
              => /\ Len(objectives) =
                       Cardinality({i \in 1..Len(Documents) : Contributes(Documents[i])})
                 /\ \A j \in 1..Len(objectives) : objectives[j] # <<>>

\* a profile without a metadata section yields the default objective
C13_Witness ==
    /\ pc = "objectives"
    /\ "metadata" \notin DOMAIN profile
    /\ objectives = <<general_osint_collection>>

\* the keyword occurs in the lower-cased text of some objective
KeywordOccurs(keyword) ==
    \E j \in 1..Len(objectives) : Contains(Lower(objectives[j]), keyword)

KeywordUnion ==
    {mod \in ModuleIds :
        \E k \in 1..Len(keyword_map) :
            KeywordOccurs(keyword_map[k].keyword) /\ mod \in keyword_map[k].modules}

\* the fixed subsets of the five target buckets of the profile
BucketUnion ==
    {mod \in ModuleIds :
        \/ profile.emails # <<>> /\ mod \in {"theHarvester", "GHunt"}
        \/ profile.domains # <<>>
              /\ mod \in {"theHarvester", "Photon", "Recon-ng", "SpiderFoot"}
        \/ profile.ips # <<>> /\ mod = "SpiderFoot"
        \/ profile.usernames # <<>> /\ mod \in {"Sherlock", "Twint"}
        \/ profile.phones # <<>> /\ mod = "Skiptracer"}

\* C12: the selection is never empty, and is exactly the triad theHarvester,
\* Sherlock, Twint when no keyword occurs and no target bucket is filled
C12_SelectionNeverEmpty ==
    pc = "selected" =>
        /\ selected_modules # <<>>
        /\ (KeywordUnion = {} /\ BucketUnion = {}) =>
              /\ Range(selected_modules) = {"theHarvester", "Sherlock", "Twint"}
              /\ Len(selected_modules) = 3

\* a profile whose documents give two objectives without any keyword and
\* whose target buckets are empty
C12_Witness ==
    /\ pc = "selected"
    /\ objectives = <<<<"x">>, <<"G", "o", "a", "l", ":">>>>
    /\ KeywordUnion = {} /\ BucketUnion = {}
    /\ selected_modules = <<"theHarvester", "Sherlock", "Twint">>

\* C14: a non-empty union of keyword matches and bucket subsets is returned
\* as it is, each module once; a filled emails bucket alone brings in
\* theHarvester and GHunt whatever the objectives say
C14_SelectionIsUnion ==
    pc = "selected" =>
        /\ (KeywordUnion \cup BucketUnion # {}) =>
              /\ Range(selected_modules) = KeywordUnion \cup BucketUnion
              /\ NoDuplicates(selected_modules)
        /\ profile.emails # <<>> =>
              {"theHarvester", "GHunt"} \subseteq Range(selected_modules)

\* the profile {full_name: Jane Doe, emails: [jane@co.io]} without objectives
C14_Witness ==
    /\ pc = "selected"
    /\ profile.full_name = "Jane Doe"
    /\ profile.emails = <<"jane@co.io">>
    /\ BucketUnion = {"theHarvester", "GHunt"}
    /\ objectives = <<general_osint_collection>>
    /\ selected_modules = <<"theHarvester", "GHunt">>

\* the name of the document carries the objective: or goal: prefix
PrefixedName(doc) ==
    \/ StartsWith(Lower(Strip(doc.name)), str_objective_colon)
    \/ StartsWith(Lower(Strip(doc.name)), str_goal_colon)

\* what follows the first colon of the name, without surrounding blanks
Remainder(doc) == Strip(AfterFirstColon(Strip(doc.name)))

\* s as a contribution: nothing when it is empty
NonEmpty(s) == IF s = <<>> THEN <<>> ELSE <<s>>

\* the contribution of a document as C24 states it
StatedContribution(doc) ==
    IF TypedObjective(doc) THEN NonEmpty(Strip(doc.name))
    ELSE IF PrefixedName(doc) THEN NonEmpty(Remainder(doc))
    ELSE <<>>

\* the contribution of a document with the whole name standing in for an
\* empty remainder
AmendedContribution(doc) ==
    IF TypedObjective(doc) THEN NonEmpty(Strip(doc.name))
    ELSE IF PrefixedName(doc)
         THEN (IF Remainder(doc) # <<>> THEN <<Remainder(doc)>>
               ELSE <<Strip(doc.name)>>)
    ELSE <<>>

RECURSIVE StatedObjectives(_)
StatedObjectives(n) ==
    IF n = 0 THEN <<>>
    ELSE StatedObjectives(n - 1) \o StatedContribution(Documents[n])

RECURSIVE AmendedObjectives(_)
AmendedObjectives(n) ==
    IF n = 0 THEN <<>>
    ELSE AmendedObjectives(n - 1) \o AmendedContribution(Documents[n])

OrDefault(objs) == IF objs = <<>> THEN <<general_osint_collection>> ELSE objs

\* C24 as stated: each document contributes, in list order, its name when its
\* type starts with objective or equals goal, otherwise the remainder of its
\* name after the colon when the name is prefixed objective: or goal:, and
\* nothing when neither rule matches.
C24_ObjectivesByRule ==
    pc \in {"objectives", "selected"} =>
        objectives = OrDefault(StatedObjectives(Len(Documents)))

\* C24 amended: as stated, except that a prefixed name with nothing after its
\* colon contributes the whole name; names, types and remainders are taken
\* without surrounding blanks, type and prefix are matched without regard to
\* case, and a typed document without a name contributes nothing.
C24_ObjectivesByRuleOrName ==
    pc \in {"objectives", "selected"} =>
        objectives = OrDefault(AmendedObjectives(Len(Documents)))

\* a prefixed document ahead of a typed one: the remainder comes first, the
\* name of the typed document second
C24_Witness ==
    /\ pc = "objectives"
    /\ Len(Documents) = 2
    /\ ~TypedObjective(Documents[1]) /\ PrefixedName(Documents[1])
    /\ TypedObjective(Documents[2])
    /\ objectives = <<Remainder(Documents[1]), Strip(Documents[2].name)>>
    /\ objectives[1] # objectives[2]
    /\ objectives[1] # Strip(Documents[1].name)

----------------------------------------------------------------------------
(* AIPlanner: the module catalog and analyze_gaps                            *)
(* A profile is a function from section names to section values; a section   *)
(* value is [kind, fields]: kind "none" for None, "mapping" for a dictionary *)
(* (fields maps its keys to the kind of value they hold), "sequence" for a    *)
(* list.  section_requirements is the list of (section, required) pairs in    *)
(* the order of the schema.                                                  *)

Identity_DeepDive ==
    <<"I", "d", "e", "n", "t", "i", "t", "y", "_", "D", "e", "e", "p", "D", "i", "v", "e">>

Alias_Expansion ==
    <<"A", "l", "i", "a", "s", "_", "E", "x", "p", "a", "n", "s", "i", "o", "n">>

Contact_Network_Map ==
    <<"C", "o", "n", "t", "a", "c", "t", "_", "N", "e", "t", "w", "o", "r", "k", "_", "M", "a", "p">>

Digital_Footprint_Audit ==
    <<"D", "i", "g", "i", "t", "a", "l", "_", "F", "o", "o", "t", "p", "r", "i", "n", "t", "_", "A", "u", "d", "i", "t">>

Research_ABN_Lookup ==
    <<"R", "e", "s", "e", "a", "r", "c", "h", "_", "A", "B", "N", "_", "L", "o", "o", "k", "u", "p">>

Director_Association_Scan ==
    <<"D", "i", "r", "e", "c", "t", "o", "r", "_", "A", "s", "s", "o", "c", "i", "a", "t", "i", "o", "n", "_", "S", "c", "a", "n">>

Legal_Proceedings_Scan ==
    <<"L", "e", "g", "a", "l", "_", "P", "r", "o", "c", "e", "e", "d", "i", "n", "g", "s", "_", "S", "c", "a", "n">>

Document_Metadata_Aggregator ==
    <<"D", "o", "c", "u", "m", "e", "n", "t", "_", "M", "e", "t", "a", "d", "a", "t", "a", "_", "A", "g", "g", "r", "e", "g", "a", "t", "o", "r">>

Social_Temporal_Analysis ==
    <<"S", "o", "c", "i", "a", "l", "_", "T", "e", "m", "p", "o", "r", "a", "l", "_", "A", "n", "a", "l", "y", "s", "i", "s">>

Geo_History_Reconstruction ==
    <<"G", "e", "o", "_", "H", "i", "s", "t", "o", "r", "y", "_", "R", "e", "c", "o", "n", "s", "t", "r", "u", "c", "t", "i", "o", "n">>

Risk_Scorer ==
    <<"R", "i", "s", "k", "_", "S", "c", "o", "r", "e", "r">>

\* _build_module_catalog, with .get(section, []) for the other sections
section_modules(section) ==
    CASE section = "identity" -> <<Identity_DeepDive, Alias_Expansion>>
      [] section = "contact"  -> <<Contact_Network_Map>>
      [] section = "digital"  -> <<Digital_Footprint_Audit>>
      [] section = "business" -> <<Research_ABN_Lookup, Director_Association_Scan>>
      [] section = "legal"    -> <<Legal_Proceedings_Scan>>
      [] section = "metadata" -> <<Document_Metadata_Aggregator>>
      [] section = "social"   -> <<Social_Temporal_Analysis>>
      [] section = "geo"      -> <<Geo_History_Reconstruction>>
      [] section = "risk"     -> <<Risk_Scorer>>
      [] OTHER                -> <<>>

NoSection == [kind |-> "none", fields |-> <<>>]

\* profile.get(section)
profile_get(p, section) == IF section \in DOMAIN p THEN p[section] ELSE NoSection

\* section_payload.get(field_name) on a dictionary
payload_get(payload, field_name) ==
    IF field_name \in DOMAIN payload.fields THEN payload.fields[field_name]
    ELSE "None"

\* the test written as "not value": zero and False count as missing too
is_empty_value_falsy(value) ==
    value \in {"None", "empty_str", "empty_list", "empty_map", "zero"}

\* value in (None, "", [], {})
is_empty_value(value) ==
    value \in {"None", "empty_str", "empty_list", "empty_map"}

\* the loop of lines 81-84 over a dictionary
RECURSIVE collect_missing(_, _)
collect_missing(required_fields, payload) ==
    IF required_fields = <<>> THEN <<>>
    ELSE (IF is_empty_value(payload_get(payload, Head(required_fields)))
          THEN <<Head(required_fields)>> ELSE <<>>)
         \o collect_missing(Tail(required_fields), payload)

\* completeness 1 - missing / denominator, floored at 0, as the fraction
\* num / den
completeness_of(missing, denominator) ==
    [num |-> IF denominator - missing > 0 THEN denominator - missing ELSE 0,
     den |-> denominator]

\* an absent section always reported by the sentinel alone
analyze_section_sentinel_only(required_fields, payload) ==
    LET missing_fields ==
            IF payload.kind = "none" THEN <<"__section_missing__">>
            ELSE collect_missing(required_fields, payload)
        denominator == IF Len(required_fields) > 1 THEN Len(required_fields) ELSE 1
    IN [missing_fields |-> missing_fields,
        completeness |-> completeness_of(Len(missing_fields), denominator)]

\* an absent section reported by its required fields alone, without the
\* sentinel
analyze_section_no_sentinel(required_fields, payload) ==
    LET missing_fields ==
            IF payload.kind = "none" THEN required_fields
            ELSE collect_missing(required_fields, payload)
        denominator == IF Len(required_fields) > 1 THEN Len(required_fields) ELSE 1
    IN [missing_fields |-> missing_fields,
        completeness |-> completeness_of(Len(missing_fields), denominator)]

\* lines 75-91 of analyze_gaps for one section whose value is None or a
\* dictionary
analyze_section(required_fields, payload) ==
    LET missing_fields ==
            IF payload.kind = "none"
            THEN (IF required_fields # <<>> THEN required_fields
                  ELSE <<"__section_missing__">>)
            ELSE collect_missing(required_fields, payload)
        denominator == IF Len(required_fields) > 1 THEN Len(required_fields) ELSE 1
    IN [missing_fields |-> missing_fields,
        completeness |-> completeness_of(Len(missing_fields), denominator)]

\* line 82 on a section that holds a list: a list has no get, and the loop
\* body runs as soon as the section has a required field
section_raises(required_fields, payload) ==
    payload.kind = "sequence" /\ required_fields # <<>>

\* analyze_gaps: exc is the exception that leaves it, "" if it returns gaps
analyze_gaps(requirements, p) ==
    IF \E i \in 1..Len(requirements) :
           section_raises(requirements[i].required,
                          profile_get(p, requirements[i].section))
    THEN [exc |-> "AttributeError: 'list' object has no attribute 'get'",
          gaps |-> <<>>]
    ELSE [exc |-> "",
          gaps |-> [i \in 1..Len(requirements) |->
                      LET entry == analyze_section(
                                       requirements[i].required,
                                       profile_get(p, requirements[i].section))
                      IN [section |-> requirements[i].section,
                          missing_fields |-> entry.missing_fields,
                          completeness |-> entry.completeness]]]

----------------------------------------------------------------------------
(* Specification GapSpec: analyze_gaps over schemas of two sections          *)

\* the longest required-field list of a schema section
MaxRequired == 2

FieldNames == <<"full_name", "aliases", "date_of_birth", "nationality">>

RequiredLists == {SubSeq(FieldNames, 1, n) : n \in 0..MaxRequired}

\* what a field of a section can hold
ValueKinds == {"None", "empty_str", "empty_list", "empty_map", "text", "zero"}

\* the dictionaries over the first MaxRequired field names
Mappings ==
    UNION {[D -> ValueKinds] : D \in SUBSET Range(SubSeq(FieldNames, 1, MaxRequired))}

SequenceSection == [kind |-> "sequence", fields |-> <<>>]

MappingSection(fields) == [kind |-> "mapping", fields |-> fields]

\* a dictionary that holds text under every field name
FullMapping == [f \in Range(FieldNames) |-> "text"]

GapSchemas ==
    {<<[section |-> "identity", required |-> a],
       [section |-> "risk", required |-> b]>> : a, b \in RequiredLists}
    \cup {<<[section |-> "risk", required |-> b],
            [section |-> "identity", required |-> a]>> : a, b \in RequiredLists}

\* identity holds None, a list or any dictionary; risk is missing from the
\* profile, or holds a list, an empty or a full dictionary
GapProfiles ==
    {[s \in {"identity"} |-> i] : i \in {NoSection, SequenceSection}
                                          \cup {MappingSection(f) : f \in Mappings}}
    \cup {[s \in {"identity", "risk"} |-> IF s = "identity" THEN i ELSE r] :
             i \in {NoSection, SequenceSection}
                       \cup {MappingSection(f) : f \in Mappings},
             r \in {SequenceSection, MappingSection(<<>>),
                    MappingSection(FullMapping)}}

\* the profile after a call that fills every absent section with an empty
\* dictionary
profile_after_analyze_setdefault(requirements, p) ==
    [s \in DOMAIN p \cup {requirements[i].section : i \in 1..Len(requirements)} |->
        IF profile_get(p, s) = NoSection THEN MappingSection(<<>>) ELSE p[s]]

\* the profile after a call of analyze_gaps: lines 66-93 only read it, and
\* line 79 copies the required fields before reporting them
profile_after_analyze(requirements, p) == p

InitGap ==
    /\ pc = "gap_input"
    /\ instance = NoInstance
    /\ profile \in GapProfiles
    /\ section_requirements \in GapSchemas
    /\ history = {}
    /\ gap_summary = <<>>
    /\ suggestions = <<>>
    /\ dependencies = ShippedDependencies
    /\ objectives = <<>>
    /\ selected_modules = <<>>
    /\ execution_order = <<>>
    /\ diagnostics = <<>>
    /\ visit_calls = 0
    /\ idx = 0
    /\ module_results = <<>>
    /\ loaded = NoClass
    /\ prepared = NoKwargs
    /\ returned = <<>>
    /\ raised = ""
    /\ trace = <<>>

\* one call of analyze_gaps
AnalyzeGaps ==
    /\ pc = "gap_input"
    /\ UNCHANGED instance
    /\ LET r == analyze_gaps(section_requirements, profile)
       IN /\ gap_summary' = r.gaps
          /\ raised' = r.exc
          /\ pc' = IF r.exc = "" THEN "gap_done" ELSE "gap_raised"
    /\ profile' = profile_after_analyze(section_requirements, profile)
    /\ UNCHANGED <<dependencies, objectives, selected_modules,
                   execution_order, diagnostics, visit_calls, idx,
                   module_results, loaded, prepared, returned, trace,
                   section_requirements, history, suggestions>>

\* a second call of analyze_gaps, on the profile the first call left
AnalyzeGapsAgain ==
    /\ pc = "gap_done"
    /\ UNCHANGED instance
    /\ LET r == analyze_gaps(section_requirements, profile)
       IN /\ gap_summary' = r.gaps
          /\ raised' = r.exc
          /\ pc' = IF r.exc = "" THEN "gap_again" ELSE "gap_raised_again"
    /\ profile' = profile_after_analyze(section_requirements, profile)
    /\ UNCHANGED <<dependencies, objectives, selected_modules,
                   execution_order, diagnostics, visit_calls, idx,
                   module_results, loaded, prepared, returned, trace,
                   section_requirements, history, suggestions>>

NextGap == AnalyzeGaps \/ AnalyzeGapsAgain

GapSpec == InitGap /\ [][NextGap]_vars

----------------------------------------------------------------------------
(* Properties of analyze_gaps *)

\* the value the profile holds for the i-th section of the schema
SectionValue(i) == profile_get(profile, section_requirements[i].section)

\* C15: for every profile analyze_gaps returns, without raising, one entry
\* per section of the schema and no other, each with a completeness in [0, 1]
C15_GapsTotal ==
    pc \in {"gap_done", "gap_raised"} =>
        /\ raised = ""
        /\ Len(gap_summary) = Len(section_requirements)
        /\ \A i \in 1..Len(section_requirements) :
              /\ gap_summary[i].section = section_requirements[i].section
              /\ gap_summary[i].completeness.den > 0
              /\ gap_summary[i].completeness.num >= 0
              /\ gap_summary[i].completeness.num <= gap_summary[i].completeness.den

\* the field holds no information: no key, None, "", [] or {}
FieldIsBlank(payload, field_name) ==
    \/ field_name \notin DOMAIN payload.fields
    \/ payload.fields[field_name] \in {"None", "empty_str", "empty_list", "empty_map"}

\* C16: in a section the profile holds as a dictionary, a required field is
\* reported missing exactly when it is absent or "", [] or {}; when no
\* required field is blank, missing_fields is empty and completeness is 1
C16_MissingIffBlank ==
    pc = "gap_done" =>
        \A i \in 1..Len(section_requirements) :
            SectionValue(i).kind = "mapping" =>
                /\ \A n \in 1..Len(section_requirements[i].required) :
                      (section_requirements[i].required[n]
                           \in Range(gap_summary[i].missing_fields))
                      <=> FieldIsBlank(SectionValue(i),
                                       section_requirements[i].required[n])
                /\ Range(gap_summary[i].missing_fields)
                      \subseteq Range(section_requirements[i].required)
                /\ (\A n \in 1..Len(section_requirements[i].required) :
                       ~FieldIsBlank(SectionValue(i),
                                     section_requirements[i].required[n]))
                      => /\ gap_summary[i].missing_fields = <<>>
                         /\ gap_summary[i].completeness.num
                               = gap_summary[i].completeness.den

\* identity requires two fields; one holds text, the other the number zero:
\* neither is missing and the section is complete
C16_Witness ==
    /\ pc = "gap_done"
    /\ section_requirements[1].section = "identity"
    /\ Len(section_requirements[1].required) = 2
    /\ profile["identity"].kind = "mapping"
    /\ DOMAIN profile["identity"].fields = {"full_name", "aliases"}
    /\ profile["identity"].fields["full_name"] = "text"
    /\ profile["identity"].fields["aliases"] = "zero"
    /\ gap_summary[1].missing_fields = <<>>
    /\ gap_summary[1].completeness = [num |-> 2, den |-> 2]

\* C17: for a section the profile lacks, missing_fields is the list of
\* required fields in its order, or the sentinel alone when nothing is
\* required, and completeness is 0 when something is required
C17_AbsentSection ==
    pc = "gap_done" =>
        \A i \in 1..Len(section_requirements) :
            SectionValue(i).kind = "none" =>
                /\ section_requirements[i].required # <<>> =>
                      /\ gap_summary[i].missing_fields
                            = section_requirements[i].required
                      /\ gap_summary[i].completeness.num = 0
                /\ section_requirements[i].required = <<>> =>
                      gap_summary[i].missing_fields = <<"__section_missing__">>

\* the profile has no risk key, the schema requires two fields of it
C17_Witness ==
    /\ pc = "gap_done"
    /\ "risk" \notin DOMAIN profile
    /\ section_requirements[1].section = "risk"
    /\ section_requirements[1].required = <<"full_name", "aliases">>
    /\ gap_summary[1].missing_fields = <<"full_name", "aliases">>
    /\ gap_summary[1].completeness = [num |-> 0, den |-> 2]

----------------------------------------------------------------------------
(* AIPlanner.suggest_modules                                                 *)
(* A score is kept in hundredths, as an integer: round(x, 2) of the product  *)
(* of line 133 computed exactly.                                             *)

\* round to the nearest integer, a half to the even neighbour
RoundHalfEven(n, d) ==
    LET q == n \div d
        r == n % d
    IN IF 2 * r < d THEN q
       ELSE IF 2 * r > d THEN q + 1
       ELSE IF q % 2 = 0 THEN q ELSE q + 1

\* the bonus turned into a penalty for the earlier modules of a section
score_of_rank_reversed(completeness, missing, rank) ==
    RoundHalfEven(
        (completeness.den - completeness.num) * 50 * (10 + rank) * (20 + missing),
        completeness.den)

\* the score without the weight of the number of missing fields
score_of_no_pressure(completeness, missing, rank) ==
    RoundHalfEven(
        (completeness.den - completeness.num) * 1000
            * (IF 10 - rank > 5 THEN 10 - rank ELSE 5),
        completeness.den)

\* lines 119 and 128-133: missing_ratio * 100 * max(0.5, 1 - rank * 0.1)
\* * (1 + missing * 0.05), in hundredths
score_of(completeness, missing, rank) ==
    RoundHalfEven(
        (completeness.den - completeness.num) * 50
            * (IF 10 - rank > 5 THEN 10 - rank ELSE 5) * (20 + missing),
        completeness.den)

\* the history taken as it is, without lower-casing its names
executed_names_as_given(names) == names

\* line 109
executed_names(names) == {Lower(name) : name \in names}

\* the candidates ranked by their position among the modules not yet executed
section_suggestions_renumbered(modules, rank, details, executed) ==
    LET remaining == {k \in 1..Len(modules) : Lower(modules[k]) \notin executed}
        position(k) == Cardinality({j \in remaining : j < k})
        kept == FilterSeq(modules, {modules[k] : k \in remaining})
    IN [n \in 1..Len(kept) |->
           [module_name |-> kept[n],
            score |-> score_of(details.completeness,
                               Len(details.missing_fields),
                               position(IndexOf(modules, kept[n])))]]

\* lines 123-135 for one section: its candidates from rank on
RECURSIVE section_suggestions(_, _, _, _)
section_suggestions(modules, rank, details, executed) ==
    IF rank >= Len(modules) THEN <<>>
    ELSE (IF Lower(modules[rank + 1]) \in executed THEN <<>>
          ELSE <<[module_name |-> modules[rank + 1],
                  score |-> score_of(details.completeness,
                                     Len(details.missing_fields), rank)]>>)
         \o section_suggestions(modules, rank + 1, details, executed)

\* lines 114-135: the suggestions in the order they are appended
RECURSIVE emit_suggestions(_, _)
emit_suggestions(gaps, executed) ==
    IF gaps = <<>> THEN <<>>
    ELSE LET details == Head(gaps)
             modules == section_modules(details.section)
         IN (IF modules = <<>> \/ details.completeness.num >= details.completeness.den
             THEN <<>>
             ELSE section_suggestions(modules, 0, details, executed))
            \o emit_suggestions(Tail(gaps), executed)

\* item put behind every element whose score is at least its own
insert_descending(sorted, item) ==
    LET ahead == Cardinality({i \in 1..Len(sorted) : sorted[i].score >= item.score})
    IN SubSeq(sorted, 1, ahead) \o <<item>> \o SubSeq(sorted, ahead + 1, Len(sorted))

\* item put ahead of every element whose score is at most its own
insert_before_equal(sorted, item) ==
    LET ahead == Cardinality({i \in 1..Len(sorted) : sorted[i].score > item.score})
    IN SubSeq(sorted, 1, ahead) \o <<item>> \o SubSeq(sorted, ahead + 1, Len(sorted))

\* an ascending sort that is reversed afterwards: equal scores change places
RECURSIVE sort_suggestions_reversed(_)
sort_suggestions_reversed(items) ==
    IF items = <<>> THEN <<>>
    ELSE insert_before_equal(
             sort_suggestions_reversed(SubSeq(items, 1, Len(items) - 1)),
             items[Len(items)])

\* lines 138-140: list.sort by score, reverse=True, which keeps the order of
\* equal scores
RECURSIVE sort_suggestions(_)
sort_suggestions(items) ==
    IF items = <<>> THEN <<>>
    ELSE insert_descending(sort_suggestions(SubSeq(items, 1, Len(items) - 1)),
                           items[Len(items)])

\* suggest_modules: exc is the exception that leaves it, "" if it returns
suggest_modules(requirements, p, names) ==
    LET analysis == analyze_gaps(requirements, p)
    IN IF analysis.exc # ""
       THEN [exc |-> analysis.exc, gaps |-> <<>>, suggestions |-> <<>>]
       ELSE [exc |-> "", gaps |-> analysis.gaps,
             suggestions |->
                 sort_suggestions(
                     emit_suggestions(analysis.gaps, executed_names(names)))]

----------------------------------------------------------------------------
(* Specification SuggestSpec: suggest_modules over schemas of four sections  *)

\* a dictionary that holds text under the first n field names
FilledMapping(n) == MappingSection([f \in Range(SubSeq(FieldNames, 1, n)) |-> "text"])

\* the longest required-field list of a section in SuggestSpec
MaxSuggestRequired == 3

SuggestRequiredLists == {SubSeq(FieldNames, 1, n) : n \in 0..MaxSuggestRequired}

SuggestSchemas ==
    {<<[section |-> "identity", required |-> a],
       [section |-> "business", required |-> b],
       [section |-> "risk", required |-> SubSeq(FieldNames, 1, 1)],
       [section |-> "intelligence", required |-> SubSeq(FieldNames, 1, 1)]>> :
        a, b \in SuggestRequiredLists}
    \cup {<<[section |-> "intelligence", required |-> SubSeq(FieldNames, 1, 1)],
            [section |-> "risk", required |-> SubSeq(FieldNames, 1, 1)],
            [section |-> "business", required |-> b],
            [section |-> "identity", required |-> a]>> :
             a, b \in SuggestRequiredLists}

SuggestProfiles ==
    {[s \in {"identity", "business", "risk"} |->
         IF s = "identity" THEN i ELSE IF s = "business" THEN b ELSE r] :
        i \in {NoSection} \cup {FilledMapping(n) : n \in 0..MaxSuggestRequired},
        b \in {NoSection, SequenceSection}
                  \cup {FilledMapping(n) : n \in 0..MaxSuggestRequired},
        r \in {NoSection, FilledMapping(1), SequenceSection}}

\* names of executed modules, in lower, upper and catalog case
HistoryNames ==
    {<<"i", "d", "e", "n", "t", "i", "t", "y", "_", "d", "e", "e", "p", "d", "i", "v", "e">>,
     <<"A", "L", "I", "A", "S", "_", "E", "X", "P", "A", "N", "S", "I", "O", "N">>,
     Risk_Scorer}

InitSuggest ==
    /\ pc = "suggest_input"
    /\ instance = NoInstance
    /\ profile \in SuggestProfiles
    /\ section_requirements \in SuggestSchemas
    /\ history \in SUBSET HistoryNames
    /\ gap_summary = <<>>
    /\ suggestions = <<>>
    /\ dependencies = ShippedDependencies
    /\ objectives = <<>>
    /\ selected_modules = <<>>
    /\ execution_order = <<>>
    /\ diagnostics = <<>>
    /\ visit_calls = 0
    /\ idx = 0
    /\ module_results = <<>>
    /\ loaded = NoClass
    /\ prepared = NoKwargs
    /\ returned = <<>>
    /\ raised = ""
    /\ trace = <<>>

\* one call of suggest_modules
SuggestModules ==
    /\ pc = "suggest_input"
    /\ UNCHANGED instance
    /\ LET r == suggest_modules(section_requirements, profile, history)
       IN /\ gap_summary' = r.gaps
          /\ suggestions' = r.suggestions
          /\ raised' = r.exc
          /\ pc' = IF r.exc = "" THEN "suggest_done" ELSE "suggest_raised"
          /\ trace' = Append(trace,
                 Event("suggest", "", [history |-> history, exc |-> r.exc,
                                       suggestions |-> r.suggestions]))
    /\ UNCHANGED <<profile, dependencies, objectives, selected_modules,
                   execution_order, diagnostics, visit_calls, idx,
                   module_results, loaded, prepared, returned,
                   section_requirements, history>>

\* a second call of suggest_modules on the same profile, with another history:
\* nothing executed yet, or everything
SuggestModulesAgain ==
    /\ pc = "suggest_done"
    /\ UNCHANGED instance
    /\ \E other \in {{}, HistoryNames} :
          /\ other # history
          /\ history' = other
          /\ LET r == suggest_modules(section_requirements, profile, other)
             IN /\ gap_summary' = r.gaps
                /\ suggestions' = r.suggestions
                /\ raised' = r.exc
                /\ pc' = IF r.exc = "" THEN "suggest_again" ELSE "suggest_raised"
                /\ trace' = Append(trace,
                       Event("suggest", "", [history |-> other, exc |-> r.exc,
                                             suggestions |-> r.suggestions]))
    /\ UNCHANGED <<profile, dependencies, objectives, selected_modules,
                   execution_order, diagnostics, visit_calls, idx,
                   module_results, loaded, prepared, returned,
                   section_requirements>>

NextSuggest == SuggestModules \/ SuggestModulesAgain

SuggestSpec == InitSuggest /\ [][NextSuggest]_vars

----------------------------------------------------------------------------
(* Properties of suggest_modules                                             *)

Suggested == {suggestions[i].module_name : i \in 1..Len(suggestions)}

\* the place of a section in the schema, and so in the gap summary
SectionIndex(section) ==
    CHOOSE i \in 1..Len(section_requirements) :
        section_requirements[i].section = section

\* the section whose catalog list holds the module, and its rank there
SectionOf(module_name) ==
    CHOOSE s \in {section_requirements[i].section :
                      i \in 1..Len(section_requirements)} :
        module_name \in Range(section_modules(s))

RankOf(module_name) == IndexOf(section_modules(SectionOf(module_name)), module_name) - 1

\* a appended to the list of suggestions before b
EmittedBefore(a, b) ==
    \/ SectionIndex(SectionOf(a)) < SectionIndex(SectionOf(b))
    \/ /\ SectionOf(a) = SectionOf(b)
       /\ RankOf(a) < RankOf(b)

\* C18: suggest_modules returns no suggestion for a module whose name,
\* compared without regard to case, equals a name of the history.
C18_NoExecutedModuleSuggested ==
    pc \in {"suggest_done", "suggest_again"} =>
        \A i \in 1..Len(suggestions) : \A name \in history :
            Lower(suggestions[i].module_name) # Lower(name)

\* Alias_Expansion was executed under an upper-case name and Identity_DeepDive
\* under a lower-case one; the identity section has a gap, and only the
\* modules of other sections are suggested.
C18_Witness ==
    /\ pc = "suggest_done"
    /\ history = {<<"i", "d", "e", "n", "t", "i", "t", "y", "_", "d", "e", "e", "p", "d", "i", "v", "e">>, <<"A", "L", "I", "A", "S", "_", "E", "X", "P", "A", "N", "S", "I", "O", "N">>}
    /\ \E i \in 1..Len(gap_summary) :
          /\ gap_summary[i].section = "identity"
          /\ gap_summary[i].completeness.num < gap_summary[i].completeness.den
    /\ Research_ABN_Lookup \in Suggested
    /\ Risk_Scorer \in Suggested
    /\ Identity_DeepDive \notin Suggested
    /\ Alias_Expansion \notin Suggested

\* C19: the returned list is sorted by score in descending order, and two
\* suggestions of equal score stand in the order in which they were emitted:
\* the order of the sections, then the order of the catalog in a section.
C19_SortedDescendingStable ==
    pc \in {"suggest_done", "suggest_again"} =>
        \A i, j \in 1..Len(suggestions) :
            i < j =>
                /\ suggestions[i].score >= suggestions[j].score
                /\ suggestions[i].score = suggestions[j].score =>
                       EmittedBefore(suggestions[i].module_name,
                                     suggestions[j].module_name)

\* two sections tie on the score of their first module, a later section
\* scores higher than an earlier one, and the tie keeps the section order
C19_Witness ==
    /\ pc = "suggest_done"
    /\ \E i, j, k \in 1..Len(suggestions) :
          /\ i < j
          /\ suggestions[i].score = suggestions[j].score
          /\ SectionOf(suggestions[i].module_name)
                 # SectionOf(suggestions[j].module_name)
          /\ suggestions[k].score > suggestions[i].score
          /\ EmittedBefore(suggestions[i].module_name, suggestions[k].module_name)

\* C20: of two suggestions of one call that come from the same section, the
\* one of lower rank in the section's catalog list has a score greater than or
\* equal to that of the one of higher rank.
C20_LowerRankScoresAtLeast ==
    pc \in {"suggest_done", "suggest_again"} =>
        \A i, j \in 1..Len(suggestions) :
            (/\ SectionOf(suggestions[i].module_name)
                    = SectionOf(suggestions[j].module_name)
             /\ RankOf(suggestions[i].module_name)
                    < RankOf(suggestions[j].module_name))
            => suggestions[i].score >= suggestions[j].score

\* both modules of the identity section are suggested with different scores,
\* and both of a business section that misses its one required field:
\* 100 * 1.05 = 105.0 for rank 0 and 100 * 0.9 * 1.05 = 94.5 for rank 1
C20_Witness ==
    /\ pc = "suggest_done"
    /\ \E i, j \in 1..Len(suggestions) :
          /\ suggestions[i].module_name = Identity_DeepDive
          /\ suggestions[j].module_name = Alias_Expansion
          /\ suggestions[i].score > suggestions[j].score
    /\ \E i, j \in 1..Len(suggestions) :
          /\ suggestions[i].module_name = Research_ABN_Lookup
          /\ suggestions[j].module_name = Director_Association_Scan
          /\ suggestions[i].score = 10500
          /\ suggestions[j].score = 9450

\* the gap entry of the section whose catalog list holds the module
GapOf(module_name) ==
    gap_summary[CHOOSE i \in 1..Len(gap_summary) :
                    gap_summary[i].section = SectionOf(module_name)]

\* missing_ratio * 100 * priority_multiplier * field_pressure in hundredths,
\* times the denominator of the completeness, which keeps it an integer:
\* (den - num) / den * 100 * max(5, 10 - rank) / 10 * (20 + missing) / 20 * 100
ScoreProductTimesDen(module_name) ==
    LET details == GapOf(module_name)
        rank == RankOf(module_name)
    IN (details.completeness.den - details.completeness.num) * 50
           * (IF 10 - rank > 5 THEN 10 - rank ELSE 5)
           * (20 + Len(details.missing_fields))

\* C23 as stated: the score of every suggestion equals missing_ratio x 100 x
\* priority_multiplier(rank) x field_pressure.
C23_ScoreIsProduct ==
    pc \in {"suggest_done", "suggest_again"} =>
        \A i \in 1..Len(suggestions) :
            suggestions[i].score * GapOf(suggestions[i].module_name).completeness.den
                = ScoreProductTimesDen(suggestions[i].module_name)

\* C23 amended: the score of every suggestion is missing_ratio x 100 x
\* priority_multiplier(rank) x field_pressure rounded to two decimals, that
\* is a whole number of hundredths at most half a hundredth from the product.
C23_ScoreIsRoundedProduct ==
    pc \in {"suggest_done", "suggest_again"} =>
        \A i \in 1..Len(suggestions) :
            LET den == GapOf(suggestions[i].module_name).completeness.den
                gap == suggestions[i].score * den
                           - ScoreProductTimesDen(suggestions[i].module_name)
            IN /\ 2 * gap <= den
               /\ 2 * gap >= 0 - den

\* two of three required identity fields are missing: 66.67 * 1.1 = 73.33 for
\* Identity_DeepDive and 66.67 * 0.9 * 1.1 = 66.0 for Alias_Expansion
C23_Witness ==
    /\ pc = "suggest_done"
    /\ \E i, j \in 1..Len(suggestions) :
          /\ suggestions[i].module_name = Identity_DeepDive
          /\ suggestions[i].score = 7333
          /\ GapOf(Identity_DeepDive).completeness = [num |-> 1, den |-> 3]
          /\ suggestions[j].module_name = Alias_Expansion
          /\ suggestions[j].score = 6600

\* the name is in the history, whatever its case
Executed(module_name) == \E name \in history : Lower(name) = Lower(module_name)

\* C29: for a section of the schema without required fields analyze_gaps
\* reports completeness 0.0 and the sentinel alone while the section is
\* absent from the profile, completeness 1.0 and no missing field once it is
\* present; so suggest_modules proposes the modules of that section only
\* while the section is absent.
C29_NoRequiredFieldsSection ==
    pc \in {"suggest_done", "suggest_again"} =>
        \A i \in 1..Len(section_requirements) :
            section_requirements[i].required = <<>> =>
                LET section == section_requirements[i].section
                    absent == profile_get(profile, section) = NoSection
                    entry == gap_summary[i]
                IN /\ entry.section = section
                   /\ absent =>
                         /\ entry.missing_fields = <<"__section_missing__">>
                         /\ entry.completeness = [num |-> 0, den |-> 1]
                   /\ ~absent =>
                         /\ entry.missing_fields = <<>>
                         /\ entry.completeness = [num |-> 1, den |-> 1]
                   /\ \A mod \in Range(section_modules(section)) :
                         mod \in Suggested <=> (absent /\ ~Executed(mod))

\* neither identity nor business declares a required field; identity is
\* absent and both its modules are proposed, 100 * 1.05 and 100 * 0.9 * 1.05,
\* business holds a list and none of its modules is proposed
C29_Witness ==
    /\ pc = "suggest_done"
    /\ \A i \in 1..Len(section_requirements) :
          section_requirements[i].section \in {"identity", "business"}
              => section_requirements[i].required = <<>>
    /\ profile_get(profile, "identity") = NoSection
    /\ profile_get(profile, "business") = SequenceSection
    /\ \E i, j \in 1..Len(suggestions) :
          /\ suggestions[i] = [module_name |-> Identity_DeepDive, score |-> 10500]
          /\ suggestions[j] = [module_name |-> Alias_Expansion, score |-> 9450]
    /\ Research_ABN_Lookup \notin Suggested
    /\ Director_Association_Scan \notin Suggested

\* the calls of suggest_modules made so far
SuggestCalls == {trace[i].data : i \in EventsOf("suggest")}

ScoresOf(call) ==
    {<<call.suggestions[i].module_name, call.suggestions[i].score>> :
        i \in 1..Len(call.suggestions)}

\* C30: for one profile and two histories, a module of a section suggested
\* under both has the same score under both: its rank is its position in the
\* full catalog list of the section, and the history only removes entries.
C30_HistoryOnlyFilters ==
    \A a, b \in SuggestCalls :
        \A x \in ScoresOf(a), y \in ScoresOf(b) :
            x[1] = y[1] => x[2] = y[2]

\* Identity_DeepDive had been executed at the first call and not at the second;
\* Alias_Expansion is suggested by both calls
C30_Witness ==
    /\ pc = "suggest_again"
    /\ Len(trace) = 2
    /\ \E name \in trace[1].data.history : Lower(name) = Lower(Identity_DeepDive)
    /\ trace[2].data.history = {}
    /\ \E s \in Range(trace[1].data.suggestions) : s.module_name = Alias_Expansion
    /\ \E s \in Range(trace[2].data.suggestions) : s.module_name = Alias_Expansion
    /\ \E s \in Range(trace[2].data.suggestions) : s.module_name = Identity_DeepDive
    /\ ~(\E s \in Range(trace[1].data.suggestions) : s.module_name = Identity_DeepDive)

----------------------------------------------------------------------------
(* IntelModuleBase.execute and its validation steps                          *)
(* A payload is None, a list, or a dictionary from field names to the Python *)
(* type of the value held; a schema lists required fields and the JSON type  *)
(* of its properties.                                                        *)

DictPayload(fields) == [kind |-> "dict", fields |-> fields]

ListPayload == [kind |-> "list", fields |-> <<>>]

\* _TYPE_MAPPING and isinstance: a JSON type the mapping lacks is not checked
type_matches(python_type, expected_type) ==
    CASE expected_type = "object" -> python_type = "dict"
      [] expected_type = "array"  -> python_type \in {"list", "tuple"}
      [] expected_type = "string" -> python_type = "str"
      [] OTHER -> TRUE

\* _validate_against_schema: the exception it raises, "" when it returns
validate_against_schema(payload, schema, payload_name) ==
    IF ~schema.declared THEN ""
    ELSE IF \E i \in 1..Len(schema.required) :
                schema.required[i] \notin DOMAIN payload.fields
    THEN (IF payload_name = "profile"
          THEN "ValueError: profile is missing required field."
          ELSE "ValueError: output is missing required field.")
    ELSE IF \E f \in DOMAIN schema.properties \cap DOMAIN payload.fields :
                ~type_matches(payload.fields[f], schema.properties[f])
    THEN (IF payload_name = "profile"
          THEN "TypeError: profile field is not of the declared type."
          ELSE "TypeError: output field is not of the declared type.")
    ELSE ""

\* IntelModuleBase.validate_input
base_validate_input(current_profile, profile_schema) ==
    IF current_profile.kind = "none"
    THEN "ValueError: No profile has been provided to validate."
    ELSE validate_against_schema(current_profile, profile_schema, "profile")

\* validate_output that checks dictionaries only and lets anything else pass
base_validate_output_dicts_only(last_result, output_schema) ==
    IF last_result.kind # "dict" THEN ""
    ELSE validate_against_schema(last_result, output_schema, "output")

\* IntelModuleBase.validate_output
base_validate_output(last_result, output_schema) ==
    IF last_result.kind = "none"
    THEN "ValueError: The module has not produced a result to validate yet."
    ELSE IF last_result.kind # "dict"
    THEN "TypeError: Module results must be a dictionary to support schema validation."
    ELSE validate_against_schema(last_result, output_schema, "output")

\* what the _execute_impl of a subclass can do
Implementations ==
    {"raises", "returns_none", "returns_list", "returns_empty_dict",
     "returns_wrong_type", "returns_result"}

\* the value _execute_impl returns
impl_result(impl) ==
    CASE impl = "returns_list"       -> ListPayload
      [] impl = "returns_empty_dict" -> DictPayload(<<>>)
      [] impl = "returns_wrong_type" -> DictPayload([orchestration |-> "list"])
      [] impl = "returns_result"     -> DictPayload([orchestration |-> "dict"])
      [] OTHER                       -> NonePayload

----------------------------------------------------------------------------
(* Specification ExecuteSpec: one call of IntelModuleBase.execute            *)

ProfileSchemas ==
    {NoSchema,
     [declared |-> TRUE, required |-> <<"identity">>,
      properties |-> [identity |-> "object"]]}

OutputSchemas ==
    {NoSchema,
     [declared |-> TRUE, required |-> <<"orchestration">>,
      properties |-> [orchestration |-> "object"]],
     [declared |-> TRUE, required |-> <<>>,
      properties |-> [orchestration |-> "object"]]}

ExecuteArguments ==
    {NonePayload, DictPayload(<<>>), DictPayload([identity |-> "dict"]),
     DictPayload([identity |-> "list"]),
     DictPayload([identity |-> "dict", contact |-> "dict"])}

InitExecute ==
    /\ PlannerIdle
    /\ pc = "execute"
    /\ profile \in ExecuteArguments
    /\ \E ps \in ProfileSchemas, os \in OutputSchemas, impl \in Implementations :
          instance = [NoInstance EXCEPT !.profile_schema = ps,
                                        !.output_schema = os, !.impl = impl]
    /\ dependencies = ShippedDependencies
    /\ objectives = <<>>
    /\ selected_modules = <<>>
    /\ execution_order = <<>>
    /\ diagnostics = <<>>
    /\ visit_calls = 0
    /\ idx = 0
    /\ module_results = <<>>
    /\ loaded = NoClass
    /\ prepared = NoKwargs
    /\ returned = <<>>
    /\ raised = ""
    /\ trace = <<>>

\* what a step of execute leaves alone
execute_frame ==
    UNCHANGED <<profile, dependencies, objectives, selected_modules,
                execution_order, diagnostics, visit_calls, idx, module_results,
                loaded, prepared, planner_vars>>

\* lines 59-60 of execute
BaseValidateInput ==
    /\ pc = "execute"
    /\ LET exc == base_validate_input(profile, instance.profile_schema)
       IN /\ instance' = [instance EXCEPT !.current_profile = profile]
          /\ trace' = Append(trace, Event("validate_input", "", exc))
          /\ raised' = exc
          /\ pc' = IF exc = "" THEN "execute_impl" ELSE "execute_raised"
    /\ UNCHANGED returned
    /\ execute_frame

\* line 61 of execute
BaseExecuteImpl ==
    /\ pc = "execute_impl"
    /\ LET exc == IF instance.impl = "raises" THEN "RuntimeError: tool failed" ELSE ""
       IN /\ trace' = Append(trace, Event("execute_impl", "", exc))
          /\ raised' = exc
          /\ instance' = IF exc = ""
                         THEN [instance EXCEPT !.last_result = impl_result(instance.impl)]
                         ELSE instance
          /\ pc' = IF exc = "" THEN "validate_output" ELSE "execute_raised"
    /\ UNCHANGED returned
    /\ execute_frame

\* line 62 of execute
BaseValidateOutput ==
    /\ pc = "validate_output"
    /\ LET exc == base_validate_output(instance.last_result, instance.output_schema)
       IN /\ trace' = Append(trace, Event("validate_output", "", exc))
          /\ raised' = exc
          /\ pc' = IF exc = "" THEN "log_result" ELSE "execute_raised"
    /\ UNCHANGED <<returned, instance>>
    /\ execute_frame

\* lines 63-64 of execute: log_result, return self._last_result
BaseLogResult ==
    /\ pc = "log_result"
    /\ trace' = Append(trace, Event("log_result", "", ""))
    /\ returned' = <<instance.last_result>>
    /\ pc' = "execute_returned"
    /\ UNCHANGED <<raised, instance>>
    /\ execute_frame

NextExecute ==
    \/ BaseValidateInput
    \/ BaseExecuteImpl
    \/ BaseValidateOutput
    \/ BaseLogResult

ExecuteSpec == InitExecute /\ [][NextExecute]_vars

----------------------------------------------------------------------------
(* Properties of IntelModuleBase.execute                                     *)

ExecuteSteps == <<"validate_input", "execute_impl", "validate_output", "log_result">>

StepNames == [i \in 1..Len(trace) |-> trace[i].ev]

\* the step was taken and raised
StepRaised(name) == \E i \in 1..Len(trace) : trace[i].ev = name /\ trace[i].data # ""

\* the step was taken and returned
StepReturned(name) == \E i \in 1..Len(trace) : trace[i].ev = name /\ trace[i].data = ""

\* the payload meets the schema: required fields present, declared types held
MeetsSchema(payload, schema) ==
    schema.declared =>
        /\ \A i \in 1..Len(schema.required) :
               schema.required[i] \in DOMAIN payload.fields
        /\ \A f \in DOMAIN schema.properties \cap DOMAIN payload.fields :
               \/ schema.properties[f] = "object" /\ payload.fields[f] = "dict"
               \/ schema.properties[f] = "array" /\ payload.fields[f] = "list"

\* C27: execute runs validate_input, _execute_impl, validate_output and
\* log_result in this order; _execute_impl is never invoked when input
\* validation raises; execute returns a result only if it is a non-None
\* mapping that passed output validation; and a failure of validate_output
\* comes after _execute_impl has run.
C27_ExecutePipeline ==
    /\ Len(trace) <= Len(ExecuteSteps)
    /\ StepNames = SubSeq(ExecuteSteps, 1, Len(trace))
    /\ StepRaised("validate_input") => ~(\E i \in 1..Len(trace) : trace[i].ev = "execute_impl")
    /\ (pc = "execute_returned" \/ returned # <<>>) =>
          /\ StepNames = ExecuteSteps
          /\ \A i \in 1..Len(trace) : trace[i].data = ""
          /\ returned = <<instance.last_result>>
          /\ returned[1].kind = "dict"
          /\ MeetsSchema(returned[1], instance.output_schema)
    /\ StepRaised("validate_output") => StepReturned("execute_impl")

\* output validation rejected the dictionary _execute_impl had returned
C27_Witness ==
    /\ pc = "execute_raised"
    /\ StepNames = <<"validate_input", "execute_impl", "validate_output">>
    /\ StepRaised("validate_output")
    /\ instance.last_result.kind = "dict"
    /\ returned = <<>>

====
